---- MODULE Spec2Model ----
(***************************************************************************)
(* Verification model of the enhanced comment pipeline of tbls:            *)
(* parsers (JSON, YAML, Legacy), the priority-sorted parser registry, the  *)
(* validator/sanitizer and the comment processor with its worker, timer    *)
(* and result channel.                                                     *)
(*                                                                         *)
(* A Go string is modelled as a sequence of characters; every character    *)
(* is a one-element TLA+ string, except the named characters below.        *)
(***************************************************************************)
EXTENDS Integers, Sequences, FiniteSets, TLC

(* ---------------------------------------------------------------------- *)
(* Characters and strings                                                  *)
(* ---------------------------------------------------------------------- *)

\* U+0000, a C0 control character that is neither whitespace nor printable
NUL == "NUL"
\* U+3000 IDEOGRAPHIC SPACE: unicode.IsSpace holds, the regexp class \s does not
FW == "FW"
\* U+3042 HIRAGANA LETTER A: a letter of three UTF-8 bytes
HIRA == "HIRA"
BSL == "\\"
QUOTE == "\""

\* the printable ASCII characters U+0020 .. U+007E in code point order
\* (U+0060 is written BQ)
Ascii ==
  <<" ", "!", "\"", "#", "$", "%", "&", "'", "(", ")", "*", "+",
    ",", "-", ".", "/", "0", "1", "2", "3", "4", "5", "6", "7",
    "8", "9", ":", ";", "<", "=", ">", "?", "@", "A", "B", "C",
    "D", "E", "F", "G", "H", "I", "J", "K", "L", "M", "N", "O",
    "P", "Q", "R", "S", "T", "U", "V", "W", "X", "Y", "Z", "[",
    "\\", "]", "^", "_", "BQ", "a", "b", "c", "d", "e", "f", "g",
    "h", "i", "j", "k", "l", "m", "n", "o", "p", "q", "r", "s",
    "t", "u", "v", "w", "x", "y", "z", "{", "|", "}", "~">>

\* the code point of a character of the model
CharCode(c) ==
  CASE c = NUL -> 0
    [] c = "\t" -> 9
    [] c = "\n" -> 10
    [] c = "\f" -> 12
    [] c = "\r" -> 13
    [] c = FW -> 12288
    [] c = HIRA -> 12354
    [] OTHER -> 31 + (CHOOSE i \in 1..95 : Ascii[i] = c)

IsUpper(c) == CharCode(c) \in 65..90
IsLower(c) == CharCode(c) \in 97..122
IsDigit(c) == CharCode(c) \in 48..57

\* unicode.IsSpace
IsSpace(c) == c \in {" ", "\t", "\n", "\r", "\f", FW}

\* the regexp class \s
ReWs(c) == c \in {"\t", "\n", "\f", "\r", " "}

\* the regexp class \w
IsWordChar(c) == IsUpper(c) \/ IsLower(c) \/ IsDigit(c) \/ c = "_"

\* len() of a Go string counts bytes
RECURSIVE ByteLen(_)
ByteLen(s) ==
  IF s = <<>> THEN 0
  ELSE (IF Head(s) \in {FW, HIRA} THEN 3 ELSE 1) + ByteLen(Tail(s))

SetMin(S) == CHOOSE x \in S : \A y \in S : x <= y
SetMax(S) == CHOOSE x \in S : \A y \in S : x >= y

\* strings.TrimSpace
TrimSpace(s) ==
  IF \A i \in 1..Len(s) : IsSpace(s[i]) THEN <<>>
  ELSE SubSeq(s, SetMin({i \in 1..Len(s) : ~IsSpace(s[i])}),
                 SetMax({i \in 1..Len(s) : ~IsSpace(s[i])}))

\* strings.HasPrefix(s[i:], d), with i a 1-based position
HasPrefixAt(s, i, d) ==
  /\ i + Len(d) - 1 <= Len(s)
  /\ \A k \in 1..Len(d) : s[i + k - 1] = d[k]

\* strings.Contains
Contains(s, sub) == \E i \in 1..(Len(s) + 1) : HasPrefixAt(s, i, sub)

\* strings.ToUpper and strings.ToLower on the model's characters
ToUpper(s) ==
  [i \in 1..Len(s) |-> IF IsLower(s[i]) THEN Ascii[CharCode(s[i]) - 31 - 32] ELSE s[i]]
ToLower(s) ==
  [i \in 1..Len(s) |-> IF IsUpper(s[i]) THEN Ascii[CharCode(s[i]) - 31 + 32] ELSE s[i]]

\* string comparison a < b (bytewise, which for UTF-8 is code point order)
RECURSIVE StrLess(_, _)
StrLess(a, b) ==
  IF b = <<>> THEN FALSE
  ELSE IF a = <<>> THEN TRUE
  ELSE IF Head(a) = Head(b) THEN StrLess(Tail(a), Tail(b))
  ELSE CharCode(Head(a)) < CharCode(Head(b))

\* the strings of a finite set in ascending order
RECURSIVE SortStrings(_)
SortStrings(S) ==
  IF S = {} THEN <<>>
  ELSE <<CHOOSE x \in S : \A y \in S \ {x} : StrLess(x, y)>>
       \o SortStrings(S \ {CHOOSE x \in S : \A y \in S \ {x} : StrLess(x, y)})

\* strings.Split(s, sep) for a separator of one character
RECURSIVE Split(_, _)
Split(s, sep) ==
  IF \A i \in 1..Len(s) : s[i] # sep THEN <<s>>
  ELSE <<SubSeq(s, 1, SetMin({i \in 1..Len(s) : s[i] = sep}) - 1)>>
       \o Split(SubSeq(s, SetMin({i \in 1..Len(s) : s[i] = sep}) + 1, Len(s)), sep)

\* strings.Join
RECURSIVE Join(_, _)
Join(ss, sep) ==
  IF ss = <<>> THEN <<>>
  ELSE IF Len(ss) = 1 THEN ss[1]
  ELSE ss[1] \o sep \o Join(Tail(ss), sep)

\* strconv decimal formatting of an integer
RECURSIVE FormatInt(_)
FormatInt(n) ==
  IF n < 0 THEN <<"-">> \o FormatInt(0 - n)
  ELSE IF n < 10 THEN <<Ascii[n + 17]>>
  ELSE Append(FormatInt(n \div 10), Ascii[(n % 10) + 17])

\* the first position from i on that holds no \s character
RECURSIVE SkipReWs(_, _)
SkipReWs(s, i) == IF i <= Len(s) /\ ReWs(s[i]) THEN SkipReWs(s, i + 1) ELSE i

(* ---------------------------------------------------------------------- *)
(* CommentData and errors                                                  *)
(* ---------------------------------------------------------------------- *)

\* the empty map[string]string (a nil map reads the same)
EmptyMap == [k \in {} |-> <<>>]

\* &CommentData{Source: source}
NewCommentData(source) ==
  [LogicalName |-> <<>>, Description |-> <<>>, Tags |-> <<>>,
   Metadata |-> EmptyMap, Priority |-> 0, Deprecated |-> FALSE,
   Source |-> source]

\* a nil *CommentData
NilData == [nil |-> TRUE]

\* a nil error
NoError == [type |-> "nil"]

ErrInvalidCommentFormat == [type |-> "sentinel", msg |-> "invalid comment format"]
ErrUnsupportedFormat == [type |-> "sentinel", msg |-> "unsupported comment format"]
ErrCommentTooLong == [type |-> "sentinel", msg |-> "comment too long"]
ErrJSONTooDeep == [type |-> "sentinel", msg |-> "JSON structure too deep"]
ErrYAMLParseError == [type |-> "sentinel", msg |-> "YAML parse error"]
ErrLogicalNameTooLong == [type |-> "sentinel", msg |-> "logical name too long"]
ErrDescriptionTooLong == [type |-> "sentinel", msg |-> "description too long"]
ErrInvalidCharacters == [type |-> "sentinel", msg |-> "invalid characters"]

NewCommentParseError(parserName, comment, reason, cause) ==
  [type |-> "CommentParseError", ParserName |-> parserName,
   Comment |-> comment, Reason |-> reason, Cause |-> cause]

\* NewCommentValidationError. A field is <<name, index or key>>, a reason is
\* <<text, argument, limit>>: the parts the code formats into one string
NewCommentValidationError(field, value, reason, cause) ==
  [type |-> "CommentValidationError", Field |-> field, Value |-> value,
   Reason |-> reason, Cause |-> cause]

\* fmt.Errorf(msg + ": %w", cause)
Errorf(msg, cause) == [type |-> "wrapped", msg |-> msg, cause |-> cause]

\* (*CommentData).IsEmpty
IsEmpty(cd) ==
  \/ cd = NilData
  \/ /\ cd.LogicalName = <<>>
     /\ cd.Description = <<>>
     /\ Len(cd.Tags) = 0
     /\ DOMAIN cd.Metadata = {}

\* (*CommentData).Clone
Clone(cd) ==
  IF cd = NilData THEN NilData
  ELSE [LogicalName |-> cd.LogicalName, Description |-> cd.Description,
        Tags |-> cd.Tags, Metadata |-> cd.Metadata, Priority |-> cd.Priority,
        Deprecated |-> cd.Deprecated, Source |-> cd.Source]

(* ---------------------------------------------------------------------- *)
(* LegacyParser                                                            *)
(* ---------------------------------------------------------------------- *)

RECURSIVE NormalizeLoop(_, _, _, _)
NormalizeLoop(s, i, prevIsSpace, result) ==
  IF i > Len(s) THEN result
  ELSE NormalizeLoop(s, i + 1, IsSpace(s[i]),
         IF IsSpace(s[i])
           THEN (IF prevIsSpace THEN result ELSE Append(result, " "))
           ELSE Append(result, s[i]))

normalizeWhitespace(s) == TrimSpace(NormalizeLoop(s, 1, FALSE, <<>>))

normalizeComment(comment) == normalizeWhitespace(TrimSpace(comment))

RECURSIVE SplitLoop(_, _, _, _, _, _)
SplitLoop(s, delimiter, i, escaped, current, parts) ==
  IF i > Len(s) THEN Append(parts, current)
  ELSE IF escaped
    THEN SplitLoop(s, delimiter, i + 1, FALSE, Append(current, s[i]), parts)
  ELSE IF s[i] = BSL /\ i + 1 <= Len(s) /\ HasPrefixAt(s, i + 1, delimiter)
    THEN SplitLoop(s, delimiter, i + 1, TRUE, current, parts)
  ELSE IF HasPrefixAt(s, i, delimiter)
    THEN SplitLoop(s, delimiter, i + Len(delimiter), FALSE, <<>>,
                   Append(parts, current))
  ELSE SplitLoop(s, delimiter, i + 1, FALSE, Append(current, s[i]), parts)

splitWithEscape(s, delimiter) ==
  IF delimiter = <<>> \/ s = <<>> THEN <<s>>
  ELSE SplitLoop(s, delimiter, 1, FALSE, <<>>, <<>>)

\* CanParse refusing the texts that are blank
LegacyCanParseNonBlank(comment) == TrimSpace(comment) # <<>>

\* (*LegacyParser).CanParse
LegacyCanParse(comment) == TRUE

\* the record ParseComment builds from the parts of the text
LegacyFromParts(comment, parts) ==
  [NewCommentData(comment) EXCEPT
     !.LogicalName = IF Len(parts) > 0 THEN TrimSpace(parts[1]) ELSE <<>>,
     !.Description = IF Len(parts) > 1 THEN TrimSpace(parts[2]) ELSE <<>>]

\* (*LegacyParser).ParseComment: [Data, Error]
LegacyParseComment(comment, delimiter) ==
  IF comment = <<>> THEN [Data |-> NewCommentData(comment), Error |-> NoError]
  ELSE [Data |-> LegacyFromParts(comment,
                   splitWithEscape(normalizeComment(comment),
                                   IF delimiter = <<>> THEN <<"|">> ELSE delimiter)),
        Error |-> NoError]

(* ---------------------------------------------------------------------- *)
(* Documents and the decoding libraries                                    *)
(*                                                                         *)
(* encoding/json and yaml.v3 are not part of the repository.  The model    *)
(* holds what they return for the documents the callers of the model       *)
(* submit; for every other text the answer is [known |-> FALSE] and the    *)
(* text is kept out of the inputs (LibrariesKnown).                        *)
(* A decoded value is [t |-> "str", s], [t |-> "num", n] (float64),        *)
(* [t |-> "int", n], [t |-> "bool", b], [t |-> "null"],                    *)
(* [t |-> "arr", items] or [t |-> "obj", m] with m the map.                *)
(* ---------------------------------------------------------------------- *)

Str(s) == [t |-> "str", s |-> s]
Arr(items) == [t |-> "arr", items |-> items]
Obj(m) == [t |-> "obj", m |-> m]

\* {"name":"A"}
S_json == <<"{", QUOTE, "n", "a", "m", "e", QUOTE, ":", QUOTE, "A", QUOTE, "}">>
\* [[[[[[]]]]]]
S_deep == <<"[", "[", "[", "[", "[", "[", "]", "]", "]", "]", "]", "]">>
\* {a}
S_jsonbad == <<"{", "a", "}">>
\* {"k":"exec"}
S_meta == <<"{", QUOTE, "k", QUOTE, ":", QUOTE, "e", "x", "e", "c", QUOTE, "}">>
\* {"object_type ":"x"}
S_collide ==
  <<"{", QUOTE, "o", "b", "j", "e", "c", "t", "_", "t", "y", "p", "e", " ", QUOTE,
    ":", QUOTE, "x", QUOTE, "}">>
\* a: b
S_yaml == <<"a", ":", " ", "b">>
\* a: [[[[[x]]]]]
S_yamldeep == <<"a", ":", " ", "[", "[", "[", "[", "[", "x", "]", "]", "]", "]", "]">>
\* a: [
S_yamlbad == <<"a", ":", " ", "[">>
\* drop|x
S_forbidden == <<"d", "r", "o", "p", "|", "x">>
\* a'b
S_quote == <<"a", "'", "b">>
\* a<b |c
S_html == <<"a", "<", "b", " ", "|", "c">>
S_blank == <<" ">>
\* {"k":"v","k ":"w"}
S_twokeys ==
  <<"{", QUOTE, "k", QUOTE, ":", QUOTE, "v", QUOTE, ",", QUOTE, "k", " ", QUOTE, ":",
    QUOTE, "w", QUOTE, "}">>
\* name: X\ndescription: Y\ntags:\n  - t
S_yamlmap ==
  <<"n", "a", "m", "e", ":", " ", "X", "\n",
    "d", "e", "s", "c", "r", "i", "p", "t", "i", "o", "n", ":", " ", "Y", "\n",
    "t", "a", "g", "s", ":", "\n", " ", " ", "-", " ", "t">>

\* json.Unmarshal([]byte(s), &rawData): [known, ok, v]
jsonUnmarshal(s) ==
  CASE s = S_json ->
         [known |-> TRUE, ok |-> TRUE, v |-> Obj(<<"n", "a", "m", "e">> :> Str(<<"A">>))]
    [] s = S_deep ->
         [known |-> TRUE, ok |-> TRUE,
          v |-> Arr(<<Arr(<<Arr(<<Arr(<<Arr(<<Arr(<<>>)>>)>>)>>)>>)>>)]
    [] s = S_jsonbad -> [known |-> TRUE, ok |-> FALSE]
    [] s = S_meta ->
         [known |-> TRUE, ok |-> TRUE, v |-> Obj(<<"k">> :> Str(<<"e", "x", "e", "c">>))]
    [] s = S_collide ->
         [known |-> TRUE, ok |-> TRUE,
          v |-> Obj(<<"o", "b", "j", "e", "c", "t", "_", "t", "y", "p", "e", " ">>
                    :> Str(<<"x">>))]
    [] s = S_twokeys ->
         [known |-> TRUE, ok |-> TRUE,
          v |-> Obj((<<"k">> :> Str(<<"v">>)) @@ (<<"k", " ">> :> Str(<<"w">>)))]
    [] OTHER -> [known |-> FALSE, ok |-> FALSE]

\* yaml.Unmarshal([]byte(s), &data): [known, ok, v]
yamlUnmarshal(s) ==
  CASE s = <<"|">> -> [known |-> TRUE, ok |-> TRUE, v |-> [t |-> "str", s |-> <<>>]]
    [] s = S_yaml -> [known |-> TRUE, ok |-> TRUE, v |-> Obj(<<"a">> :> Str(<<"b">>))]
    [] s = S_yamldeep ->
         [known |-> TRUE, ok |-> TRUE,
          v |-> Obj(<<"a">> :> Arr(<<Arr(<<Arr(<<Arr(<<Arr(<<Str(<<"x">>)>>)>>)>>)>>)>>))]
    [] s = S_yamlbad -> [known |-> TRUE, ok |-> FALSE]
    [] s = S_yamlmap ->
         [known |-> TRUE, ok |-> TRUE,
          v |-> Obj((<<"n", "a", "m", "e">> :> Str(<<"X">>))
                    @@ (<<"d", "e", "s", "c", "r", "i", "p", "t", "i", "o", "n">> :> Str(<<"Y">>))
                    @@ (<<"t", "a", "g", "s">> :> Arr(<<Str(<<"t">>)>>)))]
    [] OTHER -> [known |-> FALSE, ok |-> FALSE]

\* the entries of a map in the order fmt prints them, every value already
\* formatted
SprintEntries(m, keys) ==
  <<"m", "a", "p", "[">>
  \o Join([i \in 1..Len(keys) |-> keys[i] \o <<":">> \o m[keys[i]]], <<" ">>)
  \o <<"]">>

\* fmt.Sprintf("%v", value) of a decoded value; numbers of at most six digits
RECURSIVE SprintV(_)
SprintV(v) ==
  CASE v.t = "str" -> v.s
    [] v.t \in {"num", "int"} -> FormatInt(v.n)
    [] v.t = "bool" -> IF v.b THEN <<"t", "r", "u", "e">> ELSE <<"f", "a", "l", "s", "e">>
    [] v.t = "null" -> <<"<", "n", "i", "l", ">">>
    [] v.t = "arr" ->
         <<"[">> \o Join([i \in 1..Len(v.items) |-> SprintV(v.items[i])], <<" ">>) \o <<"]">>
    [] v.t = "obj" ->
         SprintEntries([k \in DOMAIN v.m |-> SprintV(v.m[k])], SortStrings(DOMAIN v.m))

(* ---------------------------------------------------------------------- *)
(* JSONParser                                                              *)
(* ---------------------------------------------------------------------- *)

K_tags == <<"t", "a", "g", "s">>
K_priority == <<"p", "r", "i", "o", "r", "i", "t", "y">>
K_deprecated == <<"d", "e", "p", "r", "e", "c", "a", "t", "e", "d">>
K_object_type == <<"o", "b", "j", "e", "c", "t", "_", "t", "y", "p", "e">>

\* the value of the first key of keys that holds a non-empty string, else ""
RECURSIVE FirstNonEmptyString(_, _)
FirstNonEmptyString(data, keys) ==
  IF keys = <<>> THEN <<>>
  ELSE IF /\ Head(keys) \in DOMAIN data
          /\ data[Head(keys)].t = "str"
          /\ data[Head(keys)].s # <<>>
    THEN data[Head(keys)].s
  ELSE FirstNonEmptyString(data, Tail(keys))

\* the []interface{} case of convertToStringSlice
ItemsToStrings(items) ==
  [i \in 1..Len(items) |-> IF items[i].t = "str" THEN items[i].s ELSE SprintV(items[i])]

\* (*JSONParser).convertToStringSlice; no tags when it returns an error
JSONconvertToStringSlice(value) ==
  CASE value.t = "arr" -> ItemsToStrings(value.items)
    [] value.t = "str" -> <<value.s>>
    [] OTHER -> <<>>

JSONlogicalNameKeys ==
  <<<<"n", "a", "m", "e">>,
    <<"l", "o", "g", "i", "c", "a", "l", "_", "n", "a", "m", "e">>,
    <<"l", "o", "g", "i", "c", "a", "l", "N", "a", "m", "e">>,
    <<"t", "i", "t", "l", "e">>,
    <<"l", "a", "b", "e", "l">>>>
JSONdescriptionKeys ==
  <<<<"d", "e", "s", "c", "r", "i", "p", "t", "i", "o", "n">>,
    <<"d", "e", "s", "c">>,
    <<"c", "o", "m", "m", "e", "n", "t">>,
    <<"n", "o", "t", "e">>,
    <<"s", "u", "m", "m", "a", "r", "y">>>>
JSONexcludeKeys ==
  {JSONlogicalNameKeys[i] : i \in 1..5} \cup {JSONdescriptionKeys[i] : i \in 1..5}
  \cup {K_tags, K_priority, K_deprecated}

\* the metadata loop of convertMapToCommentData
OtherFields(data, excludeKeys) ==
  [k \in (DOMAIN data) \ excludeKeys |->
     IF data[k].t = "str" THEN data[k].s ELSE SprintV(data[k])]

\* (*JSONParser).convertMapToCommentData
JSONconvertMapToCommentData(data) ==
  [LogicalName |-> FirstNonEmptyString(data, JSONlogicalNameKeys),
   Description |-> FirstNonEmptyString(data, JSONdescriptionKeys),
   Tags |-> IF K_tags \in DOMAIN data THEN JSONconvertToStringSlice(data[K_tags]) ELSE <<>>,
   Priority |-> IF K_priority \in DOMAIN data /\ data[K_priority].t = "num"
                  THEN data[K_priority].n ELSE 0,
   Deprecated |-> IF K_deprecated \in DOMAIN data /\ data[K_deprecated].t = "bool"
                    THEN data[K_deprecated].b ELSE FALSE,
   Metadata |-> OtherFields(data, JSONexcludeKeys),
   Source |-> <<>>]

\* (*JSONParser).convertToCommentData
JSONconvertToCommentData(data) ==
  IF data.t = "obj" THEN JSONconvertMapToCommentData(data.m)
  ELSE IF data.t = "arr" /\ Len(data.items) > 0 /\ data.items[1].t = "obj"
    THEN JSONconvertMapToCommentData(data.items[1].m)
  ELSE NewCommentData(<<>>)

\* (*JSONParser).getDepth
RECURSIVE getDepth(_)
getDepth(data) ==
  CASE data.t = "obj" ->
         SetMax({0} \cup {getDepth(data.m[k]) : k \in DOMAIN data.m}) + 1
    [] data.t = "arr" ->
         SetMax({0} \cup {getDepth(data.items[i]) : i \in 1..Len(data.items)}) + 1
    [] OTHER -> 1

\* the first and the last byte of the text are a pair of braces or brackets
hasValidBraces(comment) ==
  \/ comment[1] = "{" /\ comment[Len(comment)] = "}"
  \/ comment[1] = "[" /\ comment[Len(comment)] = "]"

\* (*JSONParser).CanParse
JSONCanParse(p, comment) ==
  /\ comment # <<>>
  /\ ByteLen(comment) <= p.maxSize
  /\ ByteLen(TrimSpace(comment)) >= 2
  /\ hasValidBraces(TrimSpace(comment))
  /\ jsonUnmarshal(TrimSpace(comment)).ok

\* ParseComment from the size check on, comment being trimmed and rawData
\* the result of json.Unmarshal
JSONParseTrimmed(p, comment, canParse, rawData) ==
  IF ByteLen(comment) > p.maxSize
    THEN [Data |-> NilData,
          Error |-> NewCommentParseError(p.name, comment, "comment too large",
                                         ErrCommentTooLong)]
  ELSE IF ~canParse
    THEN [Data |-> NilData,
          Error |-> NewCommentParseError(p.name, comment, "not a valid JSON format",
                                         ErrInvalidCommentFormat)]
  ELSE IF ~rawData.ok
    THEN [Data |-> NilData,
          Error |-> NewCommentParseError(p.name, comment, "JSON unmarshal failed",
                                         [type |-> "json.SyntaxError"])]
  ELSE IF getDepth(rawData.v) > p.maxDepth
    THEN [Data |-> NilData,
          Error |-> NewCommentParseError(p.name, comment, "JSON structure too deep",
                                         ErrJSONTooDeep)]
  ELSE [Data |-> [JSONconvertToCommentData(rawData.v) EXCEPT !.Source = comment],
        Error |-> NoError]

\* (*JSONParser).ParseComment: [Data, Error]
JSONParseComment(p, comment, delimiter) ==
  IF comment = <<>> THEN [Data |-> NewCommentData(comment), Error |-> NoError]
  ELSE JSONParseTrimmed(p, TrimSpace(comment), JSONCanParse(p, TrimSpace(comment)),
                        jsonUnmarshal(TrimSpace(comment)))

(* ---------------------------------------------------------------------- *)
(* YAMLParser                                                              *)
(* ---------------------------------------------------------------------- *)

\* the number of leading \w characters of s
WordRun(s) ==
  IF \A i \in 1..Len(s) : IsWordChar(s[i]) THEN Len(s)
  ELSE SetMin({i \in 1..Len(s) : ~IsWordChar(s[i])}) - 1

\* one of yamlPatterns matches the trimmed line
LineLooksLikeYAML(line) ==
  \/ /\ WordRun(line) >= 1
     /\ SkipReWs(line, WordRun(line) + 1) <= Len(line)
     /\ line[SkipReWs(line, WordRun(line) + 1)] = ":"
  \/ Len(line) >= 2 /\ line[1] = "-" /\ ReWs(line[2])
  \/ line = <<"|">>
  \/ line = <<">">>

\* (*YAMLParser).looksLikeYAML
looksLikeYAML(comment) ==
  \E line \in {TrimSpace(Split(comment, "\n")[i]) : i \in 1..Len(Split(comment, "\n"))} :
    line # <<>> /\ line[1] # "#" /\ LineLooksLikeYAML(line)

\* the string case of (*YAMLParser).convertToStringSlice
SplitTags(s) ==
  IF Contains(s, <<",">>)
    THEN [i \in 1..Len(Split(s, ",")) |-> TrimSpace(Split(s, ",")[i])]
    ELSE <<s>>

\* (*YAMLParser).convertToStringSlice; no tags when it returns an error
YAMLconvertToStringSlice(value) ==
  CASE value.t = "arr" -> ItemsToStrings(value.items)
    [] value.t = "str" -> SplitTags(value.s)
    [] OTHER -> <<>>

\* the digits of s from position i on, read as a number: [n, next]
RECURSIVE ScanDigits(_, _, _)
ScanDigits(s, i, acc) ==
  IF i <= Len(s) /\ IsDigit(s[i])
    THEN ScanDigits(s, i + 1, acc * 10 + CharCode(s[i]) - 48)
    ELSE [n |-> acc, next |-> i]

\* Sscanf(s, "%d") on a trimmed text that is not empty: [ok, n]
ScanInt(s, first, d) ==
  IF d.next = first THEN [ok |-> FALSE, n |-> 0]
  ELSE [ok |-> TRUE, n |-> IF s[1] = "-" THEN 0 - d.n ELSE d.n]

\* parseIntFromString: [ok, n]
parseIntFromString(str) ==
  IF TrimSpace(str) = <<>> \/ Contains(TrimSpace(str), <<".">>)
    THEN [ok |-> FALSE, n |-> 0]
  ELSE ScanInt(TrimSpace(str),
               IF TrimSpace(str)[1] \in {"-", "+"} THEN 2 ELSE 1,
               ScanDigits(TrimSpace(str),
                          IF TrimSpace(str)[1] \in {"-", "+"} THEN 2 ELSE 1, 0))

YAMLlogicalNameKeys ==
  JSONlogicalNameKeys \o <<<<"d", "i", "s", "p", "l", "a", "y", "_", "n", "a", "m", "e">>>>
YAMLdescriptionKeys ==
  JSONdescriptionKeys \o <<<<"d", "e", "t", "a", "i", "l", "s">>>>
YAMLexcludeKeys ==
  JSONexcludeKeys \cup {YAMLlogicalNameKeys[6], YAMLdescriptionKeys[6]}

\* the priority switch of (*YAMLParser).convertMapToCommentData
YAMLPriority(value) ==
  CASE value.t \in {"int", "num"} -> value.n
    [] value.t = "str" -> parseIntFromString(value.s).n
    [] OTHER -> 0

\* the deprecated switch of (*YAMLParser).convertMapToCommentData
YAMLDeprecated(value) ==
  CASE value.t = "bool" -> value.b
    [] value.t = "str" ->
         \/ ToLower(value.s) = <<"t", "r", "u", "e">>
         \/ value.s = <<"1">>
         \/ ToLower(value.s) = <<"y", "e", "s">>
    [] OTHER -> FALSE

\* (*YAMLParser).convertMapToCommentData
YAMLconvertMapToCommentData(data) ==
  [LogicalName |-> FirstNonEmptyString(data, YAMLlogicalNameKeys),
   Description |-> FirstNonEmptyString(data, YAMLdescriptionKeys),
   Tags |-> IF K_tags \in DOMAIN data THEN YAMLconvertToStringSlice(data[K_tags]) ELSE <<>>,
   Priority |-> IF K_priority \in DOMAIN data THEN YAMLPriority(data[K_priority]) ELSE 0,
   Deprecated |-> IF K_deprecated \in DOMAIN data
                    THEN YAMLDeprecated(data[K_deprecated]) ELSE FALSE,
   Metadata |-> OtherFields(data, YAMLexcludeKeys),
   Source |-> <<>>]

\* (*YAMLParser).convertToCommentData
YAMLconvertToCommentData(data) ==
  IF data.t = "obj" THEN YAMLconvertMapToCommentData(data.m)
  ELSE IF data.t = "arr" /\ Len(data.items) > 0 /\ data.items[1].t = "obj"
    THEN YAMLconvertMapToCommentData(data.items[1].m)
  ELSE IF data.t = "str" THEN [NewCommentData(<<>>) EXCEPT !.Description = data.s]
  ELSE NewCommentData(<<>>)

\* (*YAMLParser).CanParse
YAMLCanParse(p, comment) ==
  /\ comment # <<>>
  /\ ByteLen(comment) <= p.maxSize
  /\ TrimSpace(comment) # <<>>
  /\ looksLikeYAML(TrimSpace(comment))
  /\ yamlUnmarshal(TrimSpace(comment)).ok

\* ParseComment from the size check on, comment being trimmed and rawData
\* the result of yaml.Unmarshal; (*YAMLParser).getDepth is getDepth
YAMLParseTrimmed(p, comment, canParse, rawData) ==
  IF ByteLen(comment) > p.maxSize
    THEN [Data |-> NilData,
          Error |-> NewCommentParseError(p.name, comment, "comment too large",
                                         ErrCommentTooLong)]
  ELSE IF ~canParse
    THEN [Data |-> NilData,
          Error |-> NewCommentParseError(p.name, comment, "not a valid YAML format",
                                         ErrInvalidCommentFormat)]
  ELSE IF ~rawData.ok
    THEN [Data |-> NilData,
          Error |-> NewCommentParseError(p.name, comment, "YAML unmarshal failed",
                                         [type |-> "yaml.Error"])]
  ELSE IF getDepth(rawData.v) > p.maxDepth
    THEN [Data |-> NilData,
          Error |-> NewCommentParseError(p.name, comment, "YAML structure too deep",
                                         ErrYAMLParseError)]
  ELSE [Data |-> [YAMLconvertToCommentData(rawData.v) EXCEPT !.Source = comment],
        Error |-> NoError]

\* (*YAMLParser).ParseComment: [Data, Error]
YAMLParseComment(p, comment, delimiter) ==
  IF comment = <<>> THEN [Data |-> NewCommentData(comment), Error |-> NoError]
  ELSE YAMLParseTrimmed(p, TrimSpace(comment), YAMLCanParse(p, TrimSpace(comment)),
                        yamlUnmarshal(TrimSpace(comment)))

\* the decoding libraries' answers are known for the text a parser hands them
LibrariesKnown(comment) ==
  /\ (Len(TrimSpace(comment)) >= 2 /\ hasValidBraces(TrimSpace(comment)))
       => jsonUnmarshal(TrimSpace(comment)).known
  /\ (TrimSpace(comment) # <<>> /\ looksLikeYAML(TrimSpace(comment)))
       => yamlUnmarshal(TrimSpace(comment)).known

(* ---------------------------------------------------------------------- *)
(* CommentParser: the three implementations behind the interface           *)
(* ---------------------------------------------------------------------- *)

\* NewJSONParser; reg is the parser's place in the order of registration
NewJSONParser ==
  [name |-> "json", priority |-> 10, maxDepth |-> 5, maxSize |-> 8192, reg |-> 0]
\* NewJSONParserWithLimits
NewJSONParserWithLimits(maxDepth, maxSize) ==
  [NewJSONParser EXCEPT !.maxDepth = maxDepth, !.maxSize = maxSize]
\* NewYAMLParser
NewYAMLParser ==
  [name |-> "yaml", priority |-> 15, maxDepth |-> 5, maxSize |-> 8192, reg |-> 0]
\* NewYAMLParserWithLimits
NewYAMLParserWithLimits(maxDepth, maxSize) ==
  [NewYAMLParser EXCEPT !.maxDepth = maxDepth, !.maxSize = maxSize]
\* NewLegacyParser; the limits are unused
NewLegacyParser ==
  [name |-> "legacy", priority |-> 1000, maxDepth |-> 0, maxSize |-> 0, reg |-> 0]
\* SetPriority
SetPriority(p, priority) == [p EXCEPT !.priority = priority]

\* a nil CommentParser
NilParser == [nil |-> TRUE]

\* parser.CanParse(comment), dispatched on the dynamic type
CanParse(p, comment) ==
  CASE p.name = "json" -> JSONCanParse(p, comment)
    [] p.name = "yaml" -> YAMLCanParse(p, comment)
    [] p.name = "legacy" -> LegacyCanParse(comment)

\* parser.ParseComment(comment, delimiter), dispatched on the dynamic type
ParseComment(p, comment, delimiter) ==
  CASE p.name = "json" -> JSONParseComment(p, comment, delimiter)
    [] p.name = "yaml" -> YAMLParseComment(p, comment, delimiter)
    [] p.name = "legacy" -> LegacyParseComment(comment, delimiter)

(* ---------------------------------------------------------------------- *)
(* DefaultParserRegistry                                                   *)
(* ---------------------------------------------------------------------- *)

\* the sequence ps with parser inserted before position i
InsertAt(ps, i, parser) == SubSeq(ps, 1, i - 1) \o <<parser>> \o SubSeq(ps, i, Len(ps))

\* RegisterParser with the comparison <= : a parser of equal priority is
\* inserted before the ones already registered
RegisterIntoUnstable(ps, parser) ==
  IF parser = NilParser THEN ps
  ELSE IF \A i \in 1..Len(ps) : ~(parser.priority <= ps[i].priority)
    THEN Append(ps, parser)
  ELSE InsertAt(ps, SetMin({i \in 1..Len(ps) : parser.priority <= ps[i].priority}), parser)

\* (*DefaultParserRegistry).RegisterParser: the new value of r.parsers
RegisterInto(ps, parser) ==
  IF parser = NilParser THEN ps
  ELSE IF \A i \in 1..Len(ps) : ~(parser.priority < ps[i].priority)
    THEN Append(ps, parser)
  ELSE InsertAt(ps, SetMin({i \in 1..Len(ps) : parser.priority < ps[i].priority}), parser)

\* the calls ParseWithFallback makes on a parser
EvCanParse(parser) == [op |-> "CanParse", parser |-> parser]
EvParseComment(parser) == [op |-> "ParseComment", parser |-> parser]

RECURSIVE FallbackLoop(_, _, _, _, _, _)

\* the loop body after parser i accepted the text and returned r, with the
\* error of the parser not recorded
FallbackStepNoLastError(ps, i, comment, delimiter, r, lastError, trace) ==
  IF r.Error = NoError /\ r.Data # NilData
    THEN [Data |-> [r.Data EXCEPT !.Source = comment], Error |-> NoError, trace |-> trace]
    ELSE FallbackLoop(ps, i + 1, comment, delimiter, lastError, trace)

\* the loop body of ParseWithFallback after parser i accepted the text and
\* returned r
FallbackStep(ps, i, comment, delimiter, r, lastError, trace) ==
  IF r.Error = NoError /\ r.Data # NilData
    THEN [Data |-> [r.Data EXCEPT !.Source = comment], Error |-> NoError, trace |-> trace]
    ELSE FallbackLoop(ps, i + 1, comment, delimiter, r.Error, trace)

\* the loop of ParseWithFallback from position i on and its return; trace
\* records the calls made on the parsers
FallbackLoop(ps, i, comment, delimiter, lastError, trace) ==
  IF i > Len(ps)
    THEN IF lastError # NoError
           THEN [Data |-> NilData,
                 Error |-> Errorf("all parsers failed to parse comment", lastError),
                 trace |-> trace]
           ELSE [Data |-> NilData,
                 Error |-> NewCommentParseError("registry", comment,
                             "no suitable parser found", ErrUnsupportedFormat),
                 trace |-> trace]
  ELSE IF CanParse(ps[i], comment)
    THEN FallbackStep(ps, i, comment, delimiter,
                      ParseComment(ps[i], comment, delimiter), lastError,
                      trace \o <<EvCanParse(ps[i]), EvParseComment(ps[i])>>)
  ELSE FallbackLoop(ps, i + 1, comment, delimiter, lastError,
                    Append(trace, EvCanParse(ps[i])))

\* the elements of a sequence in reverse order
Reverse(ps) == [i \in 1..Len(ps) |-> ps[Len(ps) + 1 - i]]

\* ParseWithFallback ranging over the parsers from the last to the first
ParseWithFallbackReversed(ps, comment, delimiter) ==
  IF comment = <<>>
    THEN [Data |-> NewCommentData(comment), Error |-> NoError, trace |-> <<>>]
  ELSE FallbackLoop(Reverse(ps), 1, comment, delimiter, NoError, <<>>)

\* (*DefaultParserRegistry).ParseWithFallback: [Data, Error, trace]
ParseWithFallbackOf(ps, comment, delimiter) ==
  IF comment = <<>>
    THEN [Data |-> NewCommentData(comment), Error |-> NoError, trace |-> <<>>]
  ELSE FallbackLoop(ps, 1, comment, delimiter, NoError, <<>>)

(* ---------------------------------------------------------------------- *)
(* ValidationConfig and DefaultCommentValidator                            *)
(* ---------------------------------------------------------------------- *)

\* DefaultValidationConfig; AllowedCharPattern names the pattern
DefaultValidationConfig ==
  [MaxLogicalNameLength |-> 100, MaxDescriptionLength |-> 1000,
   MaxTagCount |-> 20, MaxTagLength |-> 50, MaxMetadataCount |-> 50,
   MaxMetadataKeyLength |-> 100, MaxMetadataValueLength |-> 500,
   AllowedCharPattern |-> "default",
   ForbiddenWords |-> <<<<"D", "R", "O", "P">>, <<"D", "E", "L", "E", "T", "E">>,
                        <<"I", "N", "S", "E", "R", "T">>, <<"U", "P", "D", "A", "T", "E">>,
                        <<"E", "X", "E", "C">>, <<"S", "C", "R", "I", "P", "T">>>>,
   EnableHTMLEscape |-> TRUE, EnableSQLInjectionCheck |-> TRUE]

\* StrictValidationConfig
StrictValidationConfig ==
  [MaxLogicalNameLength |-> 50, MaxDescriptionLength |-> 500,
   MaxTagCount |-> 10, MaxTagLength |-> 30, MaxMetadataCount |-> 20,
   MaxMetadataKeyLength |-> 50, MaxMetadataValueLength |-> 200,
   AllowedCharPattern |-> "strict",
   ForbiddenWords |-> DefaultValidationConfig.ForbiddenWords
                      \o <<<<"U", "N", "I", "O", "N">>, <<"S", "E", "L", "E", "C", "T">>,
                           <<"F", "R", "O", "M">>, <<"W", "H", "E", "R", "E">>>>,
   EnableHTMLEscape |-> TRUE, EnableSQLInjectionCheck |-> TRUE]

\* PermissiveValidationConfig
PermissiveValidationConfig ==
  [MaxLogicalNameLength |-> 200, MaxDescriptionLength |-> 2000,
   MaxTagCount |-> 50, MaxTagLength |-> 100, MaxMetadataCount |-> 100,
   MaxMetadataKeyLength |-> 200, MaxMetadataValueLength |-> 1000,
   AllowedCharPattern |-> "",
   ForbiddenWords |-> <<>>,
   EnableHTMLEscape |-> FALSE, EnableSQLInjectionCheck |-> FALSE]

\* a nil CommentValidator
NilValidator == [nil |-> TRUE]

\* NewDefaultCommentValidatorWithConfig: the regexes are compiled once, here
NewDefaultCommentValidatorWithConfig(config) ==
  [config |-> config,
   allowedCharRegex |-> config.AllowedCharPattern,
   sqlInjectionRegex |-> config.EnableSQLInjectionCheck]

\* NewDefaultCommentValidator
NewDefaultCommentValidator == NewDefaultCommentValidatorWithConfig(DefaultValidationConfig)

\* Unicode general category of a character of the model
CharCat(c) ==
  IF c \in {NUL, "\t", "\n", "\f", "\r"} THEN "Cc"
  ELSE IF c = FW \/ c = " " THEN "Zs"
  ELSE IF c = HIRA \/ IsUpper(c) \/ IsLower(c) THEN "L"
  ELSE IF IsDigit(c) THEN "N"
  ELSE IF c \in {"$", "+", "<", "=", ">", "^", "BQ", "|", "~"} THEN "S"
  ELSE "P"

\* allowedCharRegex.MatchString(text)
MatchAllowed(pattern, text) ==
  /\ text # <<>>
  /\ \A i \in 1..Len(text) :
       IF pattern = "default" THEN CharCat(text[i]) \in {"L", "N", "P", "S", "Zs"}
       ELSE \/ CharCat(text[i]) \in {"L", "N", "Zs"}
            \/ text[i] \in {"-", "_", ".", ",", "(", ")", "[", "]", "{", "}", ":", ";",
                            "'", QUOTE, "!", "?"}

\* the alternatives of the SQL injection pattern; "\\s+" and "\\s*" stand for
\* the whitespace classes, every other element for itself, case-insensitively
sqlPattern ==
  <<<<"u", "n", "i", "o", "n", "\\s+", "s", "e", "l", "e", "c", "t">>,
    <<"o", "r", "\\s+", "1", "\\s*", "=", "\\s*", "1">>,
    <<"a", "n", "d", "\\s+", "1", "\\s*", "=", "\\s*", "1">>,
    <<"'">>,
    <<"-", "-">>,
    <<"/", "*">>,
    <<"*", "/">>,
    <<"x", "p", "_">>,
    <<"s", "p", "_">>,
    <<"e", "x", "e", "c">>,
    <<"e", "x", "e", "c", "u", "t", "e">>,
    <<"d", "r", "o", "p", "\\s+", "t", "a", "b", "l", "e">>,
    <<"d", "e", "l", "e", "t", "e", "\\s+", "f", "r", "o", "m">>,
    <<"i", "n", "s", "e", "r", "t", "\\s+", "i", "n", "t", "o">>,
    <<"u", "p", "d", "a", "t", "e", "\\s+", "s", "e", "t">>>>

\* the alternative alt, from its element k on, matches text at position i
RECURSIVE MatchAlt(_, _, _, _)
MatchAlt(alt, k, text, i) ==
  IF k > Len(alt) THEN TRUE
  ELSE IF alt[k] = "\\s*" THEN MatchAlt(alt, k + 1, text, SkipReWs(text, i))
  ELSE IF alt[k] = "\\s+"
    THEN i <= Len(text) /\ ReWs(text[i]) /\ MatchAlt(alt, k + 1, text, SkipReWs(text, i))
  ELSE i <= Len(text) /\ ToLower(<<text[i]>>) = <<alt[k]>> /\ MatchAlt(alt, k + 1, text, i + 1)

\* sqlInjectionRegex.MatchString(text)
MatchSQL(text) ==
  \E a \in 1..Len(sqlPattern) : \E i \in 1..Len(text) : MatchAlt(sqlPattern[a], 1, text, i)

\* validateCharPattern
validateCharPattern(v, text, field) ==
  IF v.allowedCharRegex = "" \/ text = <<>> THEN NoError
  ELSE IF ~MatchAllowed(v.allowedCharRegex, text)
    THEN NewCommentValidationError(field, text,
           <<"contains invalid characters", <<>>, 0>>, ErrInvalidCharacters)
  ELSE NoError

\* the positions of the forbidden words that text contains
ForbiddenHits(words, text) ==
  {i \in 1..Len(words) : Contains(ToUpper(text), ToUpper(words[i]))}

\* validateForbiddenWords
validateForbiddenWords(v, text, field) ==
  IF Len(v.config.ForbiddenWords) = 0 \/ text = <<>> THEN NoError
  ELSE IF ForbiddenHits(v.config.ForbiddenWords, text) # {}
    THEN NewCommentValidationError(field, text,
           <<"contains forbidden word",
             v.config.ForbiddenWords[SetMin(ForbiddenHits(v.config.ForbiddenWords, text))],
             0>>,
           ErrInvalidCharacters)
  ELSE NoError

\* validateSQLInjection
validateSQLInjection(v, text, field) ==
  IF ~v.config.EnableSQLInjectionCheck \/ ~v.sqlInjectionRegex \/ text = <<>> THEN NoError
  ELSE IF MatchSQL(text)
    THEN NewCommentValidationError(field, text,
           <<"potentially contains SQL injection patterns", <<>>, 0>>, ErrInvalidCharacters)
  ELSE NoError

\* the first error of a sequence of check results, NoError when all passed
FirstError(errs) ==
  IF \A i \in 1..Len(errs) : errs[i] = NoError THEN NoError
  ELSE errs[SetMin({i \in 1..Len(errs) : errs[i] # NoError})]

\* the three content checks a text goes through, in order
ContentChecks(v, text, field) ==
  FirstError(<<validateCharPattern(v, text, field),
               validateForbiddenWords(v, text, field),
               validateSQLInjection(v, text, field)>>)

\* validateLogicalName; utf8.RuneCountInString is the length of the sequence
validateLogicalName(v, logicalName) ==
  IF logicalName = <<>> THEN NoError
  ELSE IF Len(logicalName) > v.config.MaxLogicalNameLength
    THEN NewCommentValidationError(<<"logical_name", <<>>>>, logicalName,
           <<"logical name too long", <<>>, v.config.MaxLogicalNameLength>>,
           ErrLogicalNameTooLong)
  ELSE ContentChecks(v, logicalName, <<"logical_name", <<>>>>)

\* validateDescription
validateDescription(v, description) ==
  IF description = <<>> THEN NoError
  ELSE IF Len(description) > v.config.MaxDescriptionLength
    THEN NewCommentValidationError(<<"description", <<>>>>, description,
           <<"description too long", <<>>, v.config.MaxDescriptionLength>>,
           ErrDescriptionTooLong)
  ELSE ContentChecks(v, description, <<"description", <<>>>>)

\* the checks of validateTags on the tag at position i (index i - 1 in the code)
validateTag(v, tags, i) ==
  IF tags[i] = <<>>
    THEN NewCommentValidationError(<<"tags", <<>>>>, tags[i],
           <<"empty tag at index", FormatInt(i - 1), 0>>, NoError)
  ELSE IF Len(tags[i]) > v.config.MaxTagLength
    THEN NewCommentValidationError(<<"tags", <<>>>>, tags[i],
           <<"tag too long at index", FormatInt(i - 1), v.config.MaxTagLength>>, NoError)
  ELSE ContentChecks(v, tags[i], <<"tags[%d]", FormatInt(i - 1)>>)

\* validateTags
validateTags(v, tags) ==
  IF Len(tags) = 0 THEN NoError
  ELSE IF Len(tags) > v.config.MaxTagCount
    THEN NewCommentValidationError(<<"tags", <<>>>>,
           <<"[">> \o Join(tags, <<" ">>) \o <<"]">>,
           <<"too many tags", <<>>, v.config.MaxTagCount>>, NoError)
  ELSE FirstError([i \in 1..Len(tags) |-> validateTag(v, tags, i)])

\* the checks of validateMetadata on one entry
validateMetadataEntry(v, key, value) ==
  IF key = <<>>
    THEN NewCommentValidationError(<<"metadata", <<>>>>, key,
           <<"empty metadata key", <<>>, 0>>, NoError)
  ELSE IF Len(key) > v.config.MaxMetadataKeyLength
    THEN NewCommentValidationError(<<"metadata", <<>>>>, key,
           <<"metadata key too long", <<>>, v.config.MaxMetadataKeyLength>>, NoError)
  ELSE IF Len(value) > v.config.MaxMetadataValueLength
    THEN NewCommentValidationError(<<"metadata", <<>>>>, value,
           <<"metadata value too long for key", key, v.config.MaxMetadataValueLength>>,
           NoError)
  ELSE FirstError(<<validateCharPattern(v, key, <<"metadata[%s].key", key>>),
                    validateCharPattern(v, value, <<"metadata[%s].value", key>>),
                    validateForbiddenWords(v, key, <<"metadata[%s].key", key>>),
                    validateForbiddenWords(v, value, <<"metadata[%s].value", key>>),
                    validateSQLInjection(v, key, <<"metadata[%s].key", key>>),
                    validateSQLInjection(v, value, <<"metadata[%s].value", key>>)>>)

\* a set of check results as the set of errors a loop over them in any order
\* can stop at
AnyError(errs) == IF errs \subseteq {NoError} THEN {NoError} ELSE errs \ {NoError}

\* validateMetadata: the errors it can return; the map is ranged over in an
\* unspecified order, so the entry reported is any of the failing ones
validateMetadata(v, metadata) ==
  IF DOMAIN metadata = {} THEN {NoError}
  ELSE IF Cardinality(DOMAIN metadata) > v.config.MaxMetadataCount
    THEN {NewCommentValidationError(<<"metadata", <<>>>>,
            SprintEntries(metadata, SortStrings(DOMAIN metadata)),
            <<"too many metadata entries", <<>>, v.config.MaxMetadataCount>>, NoError)}
  ELSE AnyError({validateMetadataEntry(v, k, metadata[k]) : k \in DOMAIN metadata})

\* the return of Validate from the results of its four checks
ValidateResult(err, metadataErrs) == IF err # NoError THEN {err} ELSE metadataErrs

\* (*DefaultCommentValidator).Validate: the set of errors it can return
Validate(v, data) ==
  IF data = NilData
    THEN {NewCommentValidationError(<<"data", <<>>>>, <<>>,
            <<"CommentData is nil", <<>>, 0>>, NoError)}
  ELSE ValidateResult(FirstError(<<validateLogicalName(v, data.LogicalName),
                                   validateDescription(v, data.Description),
                                   validateTags(v, data.Tags)>>),
                      validateMetadata(v, data.Metadata))

(* ---------------------------------------------------------------------- *)
(* Sanitization                                                            *)
(* ---------------------------------------------------------------------- *)

\* removeControlChars; unicode.IsPrint holds for letters, numbers,
\* punctuation, symbols and the ASCII space
RECURSIVE removeControlChars(_)
removeControlChars(text) ==
  IF text = <<>> THEN <<>>
  ELSE IF \/ CharCat(Head(text)) \in {"L", "N", "P", "S"}
          \/ Head(text) \in {" ", "\t", "\n", "\r"}
    THEN <<Head(text)>> \o removeControlChars(Tail(text))
  ELSE removeControlChars(Tail(text))

\* html.EscapeString
RECURSIVE EscapeString(_)
EscapeString(text) ==
  IF text = <<>> THEN <<>>
  ELSE (CASE Head(text) = "&" -> <<"&", "a", "m", "p", ";">>
          [] Head(text) = "<" -> <<"&", "l", "t", ";">>
          [] Head(text) = ">" -> <<"&", "g", "t", ";">>
          [] Head(text) = QUOTE -> <<"&", "#", "3", "4", ";">>
          [] Head(text) = "'" -> <<"&", "#", "3", "9", ";">>
          [] OTHER -> <<Head(text)>>) \o EscapeString(Tail(text))

\* regexp `\s+` ReplaceAllString(text, " ")
RECURSIVE CollapseWs(_)
CollapseWs(text) ==
  IF text = <<>> THEN <<>>
  ELSE IF ReWs(Head(text))
    THEN <<" ">> \o CollapseWs(SubSeq(text, SkipReWs(text, 1), Len(text)))
  ELSE <<Head(text)>> \o CollapseWs(Tail(text))

\* sanitizeString
sanitizeString(v, text) ==
  IF text = <<>> THEN text
  ELSE IF v.config.EnableHTMLEscape
    THEN CollapseWs(EscapeString(removeControlChars(TrimSpace(text))))
  ELSE CollapseWs(removeControlChars(TrimSpace(text)))

\* the texts of a sequence that are not empty, in order
RECURSIVE NonEmpty(_)
NonEmpty(ss) ==
  IF ss = <<>> THEN <<>>
  ELSE (IF Head(ss) # <<>> THEN <<Head(ss)>> ELSE <<>>) \o NonEmpty(Tail(ss))

\* the metadata loop of Sanitize over the sanitized entries [key, k, v]: the
\* maps it can build. Keys that sanitize to the same key overwrite each other
\* in the map's iteration order
SanitizedMaps(entries) ==
  {[sk \in {e.k : e \in entries} |-> f[sk].v] :
     f \in {g \in [{e.k : e \in entries} -> entries] :
              \A sk \in {e.k : e \in entries} : g[sk].k = sk}}

\* the metadata loop of Sanitize
SanitizeMetadata(v, metadata) ==
  SanitizedMaps({e \in {[key |-> key, k |-> sanitizeString(v, key),
                         v |-> sanitizeString(v, metadata[key])] : key \in DOMAIN metadata} :
                   e.k # <<>> /\ e.v # <<>>})

\* (*DefaultCommentValidator).Sanitize: the records it can return
Sanitize(v, data) ==
  IF data = NilData THEN {NilData}
  ELSE {[Clone(data) EXCEPT
           !.LogicalName = sanitizeString(v, data.LogicalName),
           !.Description = sanitizeString(v, data.Description),
           !.Tags = NonEmpty([i \in 1..Len(data.Tags) |-> sanitizeString(v, data.Tags[i])]),
           !.Metadata = m]
          : m \in SanitizeMetadata(v, data.Metadata)}

\* (*DefaultCommentValidator).ValidateAndSanitize: the [Data, Error] pairs it
\* can return
ValidateAndSanitize(v, data) ==
  UNION {{IF err = NoError THEN [Data |-> sanitized, Error |-> NoError]
          ELSE [Data |-> NilData, Error |-> err]
            : err \in Validate(v, sanitized)}
         : sanitized \in Sanitize(v, data)}

(* ---------------------------------------------------------------------- *)
(* EnhancedCommentProcessor                                                *)
(* ---------------------------------------------------------------------- *)

ObjectTypeTable == <<"t", "a", "b", "l", "e">>
ObjectTypeColumn == <<"c", "o", "l", "u", "m", "n">>

\* DefaultProcessingConfig
DefaultProcessingConfig ==
  [EnableValidation |-> TRUE, EnableSanitization |-> TRUE, DefaultDelimiter |-> <<"|">>,
   FallbackToLegacy |-> TRUE, StrictMode |-> FALSE, ProcessingTimeout |-> 1000]

\* the parser as the registry holds it; reg numbers the registrations since
\* the registry was last empty and stands for the identity of the object
Registered(ps, parser) ==
  IF parser = NilParser THEN parser ELSE [parser EXCEPT !.reg = Len(ps) + 1]

\* registerDefaultParsers on an empty registry
registerDefaultParsers ==
  RegisterInto(RegisterInto(<<>>, Registered(<<>>, NewJSONParser)),
               Registered(<<NewJSONParser>>, NewLegacyParser))

\* the record with metadata[key] = value
WithMetadata(data, key, value) ==
  [data EXCEPT !.Metadata =
     [x \in (DOMAIN data.Metadata) \cup {key} |->
        IF x = key THEN value ELSE data.Metadata[x]]]

\* processCommentInternal handing the parse error on in either mode
InternalResultPropagate(config, comment, objectType, r) ==
  IF r.Error # NoError
    THEN [Data |-> NilData, Error |-> Errorf("failed to parse comment", r.Error)]
  ELSE [Data |-> WithMetadata(r.Data, K_object_type, objectType), Error |-> NoError]

\* processCommentInternal from the return r of ParseWithFallback
InternalResult(config, comment, objectType, r) ==
  IF r.Error # NoError
    THEN IF config.StrictMode
           THEN [Data |-> NilData, Error |-> Errorf("failed to parse comment", r.Error)]
           ELSE [Data |-> NewCommentData(comment), Error |-> NoError]
  ELSE [Data |-> WithMetadata(r.Data, K_object_type, objectType), Error |-> NoError]

\* processCommentInternal: [Data, Error]
processCommentInternal(ps, config, comment, delimiter, objectType) ==
  InternalResult(config, comment, objectType, ParseWithFallbackOf(ps, comment, delimiter))

\* the timeout branch of ProcessComment handing out an empty record
TimeoutResultPartial(config) ==
  [Data |-> NewCommentData(<<>>), Error |-> NoError]

\* the timeout branch of ProcessComment
TimeoutResult(config) ==
  [Data |-> NilData,
   Error |-> [type |-> "errorString", msg |-> "comment processing timeout after %d ms",
              ms |-> config.ProcessingTimeout]]

\* the non-strict branch after a failed ValidateAndSanitize returning the
\* record as it was parsed
SanitizeOnlyUnchanged(validator, result) == {[Data |-> result, Error |-> NoError]}

\* the sanitization-only branches of ProcessCommentWithValidation
SanitizeOnly(validator, result) ==
  {[Data |-> sa, Error |-> NoError] : sa \in Sanitize(validator, result)}

\* the branch of ProcessCommentWithValidation with validation and
\* sanitization enabled, for one outcome va of ValidateAndSanitize
AfterValidateAndSanitize(config, validator, result, va) ==
  IF va.Error # NoError
    THEN IF config.StrictMode
           THEN {[Data |-> NilData, Error |-> Errorf("validation failed", va.Error)]}
           ELSE SanitizeOnly(validator, result)
  ELSE {[Data |-> va.Data, Error |-> NoError]}

\* ProcessCommentWithValidation after ProcessComment returned the record
\* result without error: the [Data, Error] pairs it can return
ValidationStage(config, validator, result) ==
  IF config.EnableValidation /\ validator # NilValidator
    THEN IF config.EnableSanitization
           THEN UNION {AfterValidateAndSanitize(config, validator, result, va)
                         : va \in ValidateAndSanitize(validator, result)}
         ELSE {IF err # NoError /\ config.StrictMode
                 THEN [Data |-> NilData, Error |-> Errorf("validation failed", err)]
               ELSE [Data |-> result, Error |-> NoError]
                 : err \in Validate(validator, result)}
  ELSE IF config.EnableSanitization /\ validator # NilValidator
    THEN SanitizeOnly(validator, result)
  ELSE {[Data |-> result, Error |-> NoError]}

\* ProcessCommentWithValidation from the return of ProcessComment on
AfterProcessComment(config, validator, processed) ==
  IF processed.Error # NoError THEN {[Data |-> NilData, Error |-> processed.Error]}
  ELSE ValidationStage(config, validator, processed.Data)

(* ---------------------------------------------------------------------- *)
(* Inputs                                                                  *)
(* ---------------------------------------------------------------------- *)

\* the longest text built from Alphabet
MaxLen == 2
\* the most parsers a registry holds
MaxParsers == 3
\* the number of goroutines that call one shared processor
NumCallers == 2

Alphabet == {"a", "|"}

RECURSIVE TextsOfLen(_)
TextsOfLen(n) ==
  IF n = 0 THEN {<<>>}
  ELSE {Append(t, ch) : t \in TextsOfLen(n - 1), ch \in Alphabet}

Samples ==
  {S_json, S_deep, S_jsonbad, S_meta, S_collide, S_yaml, S_yamldeep, S_yamlbad,
   S_forbidden, S_quote, S_html, S_blank}

\* the comment texts of the callers
Comments ==
  {c \in UNION {TextsOfLen(n) : n \in 0..MaxLen} \cup Samples : LibrariesKnown(c)}

Delimiters == {<<>>, <<":">>}

ObjectTypes == {ObjectTypeTable, ObjectTypeColumn}

\* the parsers a caller registers on a registry
ParserChoices ==
  {NewJSONParser, NewJSONParserWithLimits(1, 8192), NewYAMLParser, NewLegacyParser,
   SetPriority(NewLegacyParser, 5), NilParser}

\* the parsers registered on a processor
ProcessorParserChoices == {NewYAMLParser, NilParser}

\* the configurations given to SetConfig
Configs ==
  {[DefaultProcessingConfig EXCEPT !.EnableValidation = ev, !.EnableSanitization = es,
                                   !.StrictMode = sm] : ev, es, sm \in BOOLEAN}

\* the validators given to SetValidator
Validators ==
  {NilValidator, NewDefaultCommentValidator,
   NewDefaultCommentValidatorWithConfig(StrictValidationConfig),
   NewDefaultCommentValidatorWithConfig(PermissiveValidationConfig)}

Callers == 1..NumCallers

\* the texts the concurrent callers submit
WorkerComments == {<<"a">>, S_json}

\* the configurations the shared processor is given between the calls
WorkerConfigs == {DefaultProcessingConfig, [DefaultProcessingConfig EXCEPT !.StrictMode = TRUE]}

(* ---------------------------------------------------------------------- *)
(* State                                                                   *)
(* ---------------------------------------------------------------------- *)

VARIABLES
  parsers,    \* registry.parsers
  out,        \* what the last call on the registry returned to its caller
  config,     \* processor.config
  validator,  \* processor.validator
  calls,      \* per caller: its ProcessCommentWithValidation call
  workers,    \* per caller: the goroutine its ProcessComment started
  done,       \* per channel: the buffer of the channel done
  timer,      \* per caller: whether the time.After channel has fired
  adapter,    \* the driver adapter's call on a schema, and the schema
  fn,         \* the last application of a function to a drawn input
  reporter    \* the error reporter: its entries, its recoveries, its last call

vars == <<parsers, out, config, validator, calls, workers, done, timer, adapter, fn, reporter>>

NoCall == [op |-> "none"]
NoResult == [Data |-> NilData, Error |-> NoError]

IdleCall ==
  [pc |-> "idle", comment |-> <<>>, delimiter |-> <<>>, objectType |-> <<>>,
   processed |-> NoResult, ret |-> NoResult]

NoWorker == [pc |-> "none", result |-> NoResult, sends |-> 0]

\* no adapter has been made
NoAdapter == [pc |-> "none"]

\* no function has been applied
NoFn == [op |-> "none"]

\* no error reporter has been made
NoReporter == [op |-> "none"]

\* NewDefaultParserRegistry
InitRegistry ==
  /\ parsers = <<>>
  /\ out = NoCall
  /\ config = DefaultProcessingConfig
  /\ validator = NewDefaultCommentValidator
  /\ calls = [c \in Callers |-> IdleCall]
  /\ workers = [c \in Callers |-> NoWorker]
  /\ done = [c \in Callers |-> <<>>]
  /\ timer = [c \in Callers |-> FALSE]
  /\ adapter = NoAdapter
  /\ reporter = NoReporter
  /\ fn = NoFn

\* NewEnhancedCommentProcessor
Init ==
  /\ parsers = registerDefaultParsers
  /\ out = NoCall
  /\ config = DefaultProcessingConfig
  /\ validator = NewDefaultCommentValidator
  /\ calls = [c \in Callers |-> IdleCall]
  /\ workers = [c \in Callers |-> NoWorker]
  /\ done = [c \in Callers |-> <<>>]
  /\ timer = [c \in Callers |-> FALSE]
  /\ adapter = NoAdapter
  /\ reporter = NoReporter
  /\ fn = NoFn

\* no call is under way and no worker is running; the registry and the
\* processor are written to in such states only
Quiescent ==
  \A c \in Callers : calls[c].pc = "idle" /\ workers[c].pc \in {"none", "exit"}

(* ---------------------------------------------------------------------- *)
(* DefaultParserRegistry: operations                                       *)
(* ---------------------------------------------------------------------- *)

\* (*DefaultParserRegistry).RegisterParser, also behind
\* (*EnhancedCommentProcessor).RegisterParser
RegisterParser(parser) ==
  /\ Quiescent
  /\ parser = NilParser \/ Len(parsers) < MaxParsers
  /\ parsers' = RegisterInto(parsers, Registered(parsers, parser))
  /\ out' = NoCall
  /\ UNCHANGED <<config, validator, calls, workers, done, timer, adapter, fn, reporter>>

\* (*DefaultParserRegistry).GetParsers; the reads leave the registry as it
\* is, so one read is taken between two writes
GetParsers ==
  /\ out = NoCall
  /\ out' = [op |-> "GetParsers", parsers |-> parsers]
  /\ UNCHANGED <<parsers, config, validator, calls, workers, done, timer, adapter, fn, reporter>>

\* (*DefaultParserRegistry).ParseWithFallback
ParseWithFallback(comment, delimiter) ==
  /\ out = NoCall
  /\ out' = [op |-> "ParseWithFallback", comment |-> comment, delimiter |-> delimiter,
             r |-> ParseWithFallbackOf(parsers, comment, delimiter)]
  /\ UNCHANGED <<parsers, config, validator, calls, workers, done, timer, adapter, fn, reporter>>

\* (*DefaultParserRegistry).Clear, also behind (*EnhancedCommentProcessor).Clear
Clear ==
  /\ Quiescent
  /\ parsers' = <<>>
  /\ out' = NoCall
  /\ UNCHANGED <<config, validator, calls, workers, done, timer, adapter, fn, reporter>>

\* the parser whose record ParseWithFallback returned in r
WinnerOf(r) == r.trace[Len(r.trace)].parser

\* the map that the parser's convertToCommentData hands to
\* convertMapToCommentData for the text, the empty map when it hands none
RawMapOf(raw) ==
  IF raw.t = "obj" THEN raw.m
  ELSE IF raw.t = "arr" /\ Len(raw.items) > 0 /\ raw.items[1].t = "obj" THEN raw.items[1].m
  ELSE EmptyMap

\* the orders in which a range loop can go through the keys of a map
IterationOrders(data) ==
  {order \in [1..Cardinality(DOMAIN data) -> DOMAIN data] :
     \A i, j \in 1..Cardinality(DOMAIN data) : order[i] = order[j] => i = j}

\* the assignment of the metadata loop with the key trimmed
MetadataPutTrimmed(metadata, key, value) ==
  (TrimSpace(key) :> value) @@ metadata

\* result.Metadata[key] = value
MetadataPut(metadata, key, value) ==
  (key :> value) @@ metadata

\* the metadata loop of convertMapToCommentData going through the keys of
\* data in the order given
RECURSIVE MetadataLoop(_, _, _, _)
MetadataLoop(data, excludeKeys, order, metadata) ==
  IF order = <<>> THEN metadata
  ELSE IF Head(order) \in excludeKeys
    THEN MetadataLoop(data, excludeKeys, Tail(order), metadata)
  ELSE MetadataLoop(data, excludeKeys, Tail(order),
         MetadataPut(metadata, Head(order),
                     IF data[Head(order)].t = "str" THEN data[Head(order)].s
                     ELSE SprintV(data[Head(order)])))

\* the map the winning parser's metadata loop goes through when
\* ParseWithFallback returns r for the text, the empty map when there is no
\* such loop
RangedMap(r, comment) ==
  IF r.Error # NoError \/ r.trace = <<>> THEN EmptyMap
  ELSE IF WinnerOf(r).name = "json" THEN RawMapOf(jsonUnmarshal(TrimSpace(comment)).v)
  ELSE IF WinnerOf(r).name = "yaml" THEN RawMapOf(yamlUnmarshal(TrimSpace(comment)).v)
  ELSE EmptyMap

\* what ParseWithFallback returns when the metadata loop of the winning
\* parser goes through the map in the order given
ParseWithFallbackRanging(r, comment, order) ==
  IF order = <<>> THEN r
  ELSE [r EXCEPT !.Data.Metadata =
          MetadataLoop(RangedMap(r, comment),
                       IF WinnerOf(r).name = "json" THEN JSONexcludeKeys ELSE YAMLexcludeKeys,
                       order, EmptyMap)]

\* a second ParseWithFallback of the same text and delimiter on the registry
\* as it is, its range loop taking an order of its own
ParseWithFallbackAgain ==
  /\ out # NoCall
  /\ out.op = "ParseWithFallback"
  /\ \E order \in IterationOrders(RangedMap(ParseWithFallbackOf(parsers, out.comment,
                                                                 out.delimiter),
                                             out.comment)) :
       out' = [op |-> "ParseWithFallbackAgain", comment |-> out.comment,
               delimiter |-> out.delimiter, r |-> out.r, order |-> order,
               again |-> ParseWithFallbackRanging(
                           ParseWithFallbackOf(parsers, out.comment, out.delimiter),
                           out.comment, order)]
  /\ UNCHANGED <<parsers, config, validator, calls, workers, done, timer, adapter, fn, reporter>>

\* the texts handed to the registry
RegistryComments == Comments \cup {S_twokeys}

NextRegistry ==
  \/ \E parser \in ParserChoices : RegisterParser(parser)
  \/ GetParsers
  \/ \E comment \in RegistryComments, delimiter \in Delimiters :
       ParseWithFallback(comment, delimiter)
  \/ ParseWithFallbackAgain
  \/ Clear

SpecRegistry == InitRegistry /\ [][NextRegistry]_vars

(* ---------------------------------------------------------------------- *)
(* EnhancedCommentProcessor: operations                                    *)
(* ---------------------------------------------------------------------- *)

\* the channel done of the call of caller c, were the processor to hold one
\* channel for all its calls
DoneOfShared(c) == 1

\* the channel done of the call of caller c: every call makes its own
DoneOf(c) == c

\* a send on a channel made without a buffer and with no receiver waiting
HasRoomUnbuffered(ch) == Len(ch) < 0

\* a send on the channel done = make(chan *ProcessingResult, 1) can proceed
HasRoom(ch) == Len(ch) < 1

\* SetConfig
SetConfig(cfg) ==
  /\ Quiescent
  /\ config' = cfg
  /\ UNCHANGED <<parsers, out, validator, calls, workers, done, timer, adapter, fn, reporter>>

\* SetValidator
SetValidator(v) ==
  /\ Quiescent
  /\ validator' = v
  /\ UNCHANGED <<parsers, out, config, calls, workers, done, timer, adapter, fn, reporter>>

\* Reset
Reset ==
  /\ Quiescent
  /\ parsers' = registerDefaultParsers
  /\ config' = DefaultProcessingConfig
  /\ validator' = NewDefaultCommentValidator
  /\ UNCHANGED <<out, calls, workers, done, timer, adapter, fn, reporter>>

\* the call of caller c with ProcessComment under way
CallRecord(pc, comment, delimiter, objectType, processed) ==
  [pc |-> pc, comment |-> comment, delimiter |-> delimiter, objectType |-> objectType,
   processed |-> processed, ret |-> NoResult]

\* ProcessCommentWithValidation is called and calls ProcessComment, which
\* returns at once for the empty text and else applies the default
\* delimiter, makes the channel, starts the worker and the timer, and waits
Call(c, comment, delimiter, objectType) ==
  /\ calls[c].pc = "idle"
  /\ workers[c].pc \in {"none", "exit"}
  /\ IF comment = <<>>
       THEN /\ calls' = [calls EXCEPT ![c] =
                 CallRecord("processed", comment, delimiter, objectType,
                            [Data |-> NewCommentData(comment), Error |-> NoError])]
            /\ UNCHANGED <<workers, done, timer>>
       ELSE /\ calls' = [calls EXCEPT ![c] =
                 CallRecord("select", comment,
                            IF delimiter = <<>> THEN config.DefaultDelimiter ELSE delimiter,
                            objectType, NoResult)]
            /\ workers' = [workers EXCEPT ![c] = [NoWorker EXCEPT !.pc = "run"]]
            /\ done' = [done EXCEPT ![DoneOf(c)] = <<>>]
            /\ timer' = [timer EXCEPT ![c] = FALSE]
  /\ UNCHANGED <<parsers, out, config, validator, adapter, fn, reporter>>

\* the worker goroutine runs processCommentInternal
WorkerRun(c) ==
  /\ workers[c].pc = "run"
  /\ workers' = [workers EXCEPT ![c] =
       [pc |-> "send",
        result |-> processCommentInternal(parsers, config, calls[c].comment,
                                          calls[c].delimiter, calls[c].objectType),
        sends |-> 0]]
  /\ UNCHANGED <<parsers, out, config, validator, calls, done, timer, adapter, fn, reporter>>

\* the worker goroutine sends its result on done and ends
WorkerSend(c) ==
  /\ workers[c].pc = "send"
  /\ HasRoom(done[DoneOf(c)])
  /\ done' = [done EXCEPT ![DoneOf(c)] = Append(@, workers[c].result)]
  /\ workers' = [workers EXCEPT ![c] = [@ EXCEPT !.pc = "exit", !.sends = @ + 1]]
  /\ UNCHANGED <<parsers, out, config, validator, calls, timer, adapter, fn, reporter>>

\* the channel of time.After delivers
TimerFire(c) ==
  /\ calls[c].pc = "select"
  /\ ~timer[c]
  /\ timer' = [timer EXCEPT ![c] = TRUE]
  /\ UNCHANGED <<parsers, out, config, validator, calls, workers, done, adapter, fn, reporter>>

\* the select of ProcessComment receives from done; ProcessComment returns
SelectResult(c) ==
  /\ calls[c].pc = "select"
  /\ done[DoneOf(c)] # <<>>
  /\ calls' = [calls EXCEPT ![c] =
       [@ EXCEPT !.pc = "processed", !.processed = Head(done[DoneOf(c)])]]
  /\ done' = [done EXCEPT ![DoneOf(c)] = Tail(@)]
  /\ UNCHANGED <<parsers, out, config, validator, workers, timer, adapter, fn, reporter>>

\* the select of ProcessComment receives from the timer; ProcessComment
\* returns
SelectTimeout(c) ==
  /\ calls[c].pc = "select"
  /\ timer[c]
  /\ calls' = [calls EXCEPT ![c] =
       [@ EXCEPT !.pc = "processed", !.processed = TimeoutResult(config)]]
  /\ UNCHANGED <<parsers, out, config, validator, workers, done, timer, adapter, fn, reporter>>

\* ProcessCommentWithValidation from the return of ProcessComment to its own
Validation(c) ==
  /\ calls[c].pc = "processed"
  /\ \E ret \in AfterProcessComment(config, validator, calls[c].processed) :
       calls' = [calls EXCEPT ![c] = [@ EXCEPT !.pc = "returned", !.ret = ret]]
  /\ UNCHANGED <<parsers, out, config, validator, workers, done, timer, adapter, fn, reporter>>

\* the caller has its result and goes on; a worker that has ended and the
\* channel it sent on are garbage
Return(c) ==
  /\ calls[c].pc = "returned"
  /\ calls' = [calls EXCEPT ![c] = IdleCall]
  /\ timer' = [timer EXCEPT ![c] = FALSE]
  /\ IF workers[c].pc = "exit"
       THEN /\ workers' = [workers EXCEPT ![c] = NoWorker]
            /\ done' = [done EXCEPT ![DoneOf(c)] = <<>>]
       ELSE UNCHANGED <<workers, done>>
  /\ UNCHANGED <<parsers, out, config, validator, adapter, fn, reporter>>

\* one processor and one caller
NextProcessor ==
  \/ \E comment \in Comments, delimiter \in Delimiters, objectType \in ObjectTypes :
       Call(1, comment, delimiter, objectType)
  \/ WorkerRun(1)
  \/ WorkerSend(1)
  \/ TimerFire(1)
  \/ SelectResult(1)
  \/ SelectTimeout(1)
  \/ Validation(1)
  \/ Return(1)
  \/ \E cfg \in Configs : SetConfig(cfg)
  \/ \E v \in Validators : SetValidator(v)
  \/ \E parser \in ProcessorParserChoices : RegisterParser(parser)
  \/ Clear
  \/ Reset

SpecProcessor == Init /\ [][NextProcessor]_vars

\* one processor shared by the callers
NextWorkers ==
  \/ \E c \in Callers :
       \/ \E comment \in WorkerComments : Call(c, comment, <<>>, ObjectTypeTable)
       \/ WorkerRun(c)
       \/ WorkerSend(c)
       \/ TimerFire(c)
       \/ SelectResult(c)
       \/ SelectTimeout(c)
       \/ Validation(c)
       \/ Return(c)
  \/ \E cfg \in WorkerConfigs : SetConfig(cfg)
  \/ Clear
  \/ Reset

SpecWorkers == Init /\ [][NextWorkers]_vars

\* the scheduler runs a goroutine that can run, the timer delivers, and a
\* select with a ready case proceeds. For the worker's first step the
\* condition is written out: WorkerRun(c) is enabled exactly while the worker
\* is at "run" and every WorkerRun(c) step leaves "run", so WF_vars(WorkerRun(c))
\* says that the worker is not at "run" for ever
FairWorkers ==
  /\ SpecWorkers
  /\ \A c \in Callers :
       /\ []<>(workers[c].pc # "run")
       /\ WF_vars(WorkerSend(c))
       /\ WF_vars(TimerFire(c))
       /\ WF_vars(SelectResult(c) \/ SelectTimeout(c))
(* ---------------------------------------------------------------------- *)
(* DefaultParserRegistry: properties                                       *)
(* ---------------------------------------------------------------------- *)

\* the last call was ParseWithFallback on a non-empty text
ParsedNonEmpty == out.op = "ParseWithFallback" /\ out.comment # <<>>

\* the parser at position i accepts the text of the last call
Accepts(i) == CanParse(parsers[i], out.comment)

\* the parser at position i accepts the text of the last call and parses it
Succeeds(i) ==
  /\ Accepts(i)
  /\ LET r == ParseComment(parsers[i], out.comment, out.delimiter)
     IN r.Error = NoError /\ r.Data # NilData

\* the positions of the parsers that would produce a record
Winners == {i \in 1..Len(parsers) : Succeeds(i)}

\* the position of the last parser ParseWithFallback has to consult
LastConsulted == IF Winners = {} THEN Len(parsers) ELSE SetMin(Winners)

IsCanParseEvent(e) == e.op = "CanParse"

\* the parsers asked CanParse, in the order they were asked
Consulted == [i \in 1..Len(SelectSeq(out.r.trace, IsCanParseEvent)) |->
                SelectSeq(out.r.trace, IsCanParseEvent)[i].parser]

\* C1: ParseWithFallback on a non-empty text consults the parsers in
\* ascending priority order, from the first up to the first one that accepts
\* the text and parses it and no further; it calls ParseComment exactly on
\* the consulted parsers whose CanParse holds; and it returns that first
\* successful parser's record with Source set to the input text, whatever
\* failed before it.
C1_FirstSuccessInPriorityOrder ==
  ParsedNonEmpty =>
    /\ \A a, b \in 1..Len(out.r.trace) :
         a < b => out.r.trace[a].parser.priority <= out.r.trace[b].parser.priority
    /\ Consulted = SubSeq(parsers, 1, LastConsulted)
    /\ \A i \in 1..LastConsulted :
         Accepts(i) <=> EvParseComment(parsers[i]) \in {out.r.trace[a] : a \in 1..Len(out.r.trace)}
    /\ Winners # {} =>
         /\ out.r.Error = NoError
         /\ out.r.Data = [ParseComment(parsers[SetMin(Winners)], out.comment,
                                     out.delimiter).Data EXCEPT !.Source = out.comment]

\* a parser failed on the text, a later one produced the record, the record
\* carries the untrimmed text, and a parser behind the successful one was
\* left alone
C1_Witness ==
  /\ ParsedNonEmpty
  /\ out.r.Error = NoError
  /\ \E i \in 1..Len(parsers) : i < SetMin(Winners) /\ Accepts(i)
  /\ SetMin(Winners) < Len(parsers)
  /\ out.r.Data.Source = out.comment

HasLegacy == \E i \in 1..Len(parsers) : parsers[i].name = "legacy"

\* C2: with a Legacy parser registered, ParseWithFallback returns a record
\* and no error for every non-empty text and delimiter, also when a parser
\* before it accepted the text and failed; the Legacy parser's CanParse holds
\* for the text and its ParseComment returns a record and no error.
C2_LegacyAlwaysParses ==
  /\ (ParsedNonEmpty /\ HasLegacy) => (out.r.Error = NoError /\ out.r.Data # NilData)
  /\ out.op = "ParseWithFallback" =>
       /\ LegacyCanParse(out.comment)
       /\ LegacyParseComment(out.comment, out.delimiter).Error = NoError
       /\ LegacyParseComment(out.comment, out.delimiter).Data # NilData

\* the JSON parser accepted the text and failed on it as too deep, and the
\* Legacy parser behind it produced the record
C2_Witness ==
  /\ ParsedNonEmpty
  /\ HasLegacy
  /\ \E i \in 1..Len(parsers) :
       /\ parsers[i].name = "json"
       /\ Accepts(i)
       /\ ~Succeeds(i)
  /\ out.r.Error = NoError
  /\ out.r.Data.LogicalName # <<>>

\* errors.Is(err, target)
RECURSIVE ErrorsIs(_, _)
ErrorsIs(err, target) ==
  \/ err = target
  \/ /\ err.type = "wrapped"
     /\ ErrorsIs(err.cause, target)
  \/ /\ err.type = "CommentParseError"
     /\ ErrorsIs(err.Cause, target)

Attempted == {i \in 1..Len(parsers) : Accepts(i)}

\* C3: when no registered parser produces a record for a non-empty text,
\* ParseWithFallback returns no record and an error; the error wraps the
\* error of the last parser whose ParseComment was called, and it is
\* UnsupportedFormat exactly when ParseComment was called on no parser.
C3_LastErrorOrUnsupported ==
  (ParsedNonEmpty /\ Winners = {}) =>
    /\ out.r.Data = NilData
    /\ out.r.Error # NoError
    /\ ErrorsIs(out.r.Error, ErrUnsupportedFormat) <=> Attempted = {}
    /\ Attempted = {} =>
         out.r.Error = NewCommentParseError("registry", out.comment,
                                          "no suitable parser found", ErrUnsupportedFormat)
    /\ Attempted # {} =>
         out.r.Error = Errorf("all parsers failed to parse comment",
                            ParseComment(parsers[SetMax(Attempted)], out.comment,
                                         out.delimiter).Error)

\* two parsers were attempted on the text and both failed
C3_Witness ==
  /\ ParsedNonEmpty
  /\ Winners = {}
  /\ Cardinality(Attempted) >= 2
  /\ out.r.Error.type = "wrapped"
  /\ ErrorsIs(out.r.Error, ErrJSONTooDeep)

Sorted(ps) == \A i, j \in 1..Len(ps) : i < j => ps[i].priority <= ps[j].priority

Stable(ps) ==
  \A i, j \in 1..Len(ps) : (i < j /\ ps[i].priority = ps[j].priority) => ps[i].reg < ps[j].reg

\* every parser registered since the registry was last empty is there once
AllRegistered(ps) == {ps[i].reg : i \in 1..Len(ps)} = 1..Len(ps) /\ \A i \in 1..Len(ps) : ps[i] # NilParser

\* C4: after any sequence of RegisterParser and Clear, GetParsers returns
\* the registered parsers in ascending priority order with parsers of equal
\* priority in their registration order; registering nil leaves the registry
\* as it is and Clear leaves it empty.
C4_SortedStableRegistry ==
  /\ [](out.op = "GetParsers" =>
          /\ out.parsers = parsers
          /\ AllRegistered(out.parsers)
          /\ Sorted(out.parsers)
          /\ Stable(out.parsers))
  /\ [][RegisterParser(NilParser) => parsers' = parsers]_vars
  /\ [][Clear => parsers' = <<>>]_vars

\* GetParsers returned three parsers, two of them of equal priority, one of
\* them registered after a parser it stands before
C4_Witness ==
  /\ out.op = "GetParsers"
  /\ Len(out.parsers) = 3
  /\ \E i, j \in 1..3 : i < j /\ out.parsers[i].priority = out.parsers[j].priority
  /\ \E i, j \in 1..3 : i < j /\ out.parsers[i].reg > out.parsers[j].reg


(* ---------------------------------------------------------------------- *)
(* EnhancedCommentProcessor: properties                                    *)
(* ---------------------------------------------------------------------- *)

\* the call of caller c has returned to its caller
Returned(c) == calls[c].pc = "returned"

\* ProcessComment of the call of caller c returned from the timer case
TimedOut(c) ==
  /\ calls[c].comment # <<>>
  /\ calls[c].processed.Data = NilData
  /\ calls[c].processed.Error.type = "errorString"

\* what the registry returns for the text of the call of caller c
ParseOf(c) == ParseWithFallbackOf(parsers, calls[c].comment, calls[c].delimiter)

\* the registry fails on the text of the call of caller c
ParseFails(c) == calls[c].comment # <<>> /\ ParseOf(c).Error # NoError

\* the errors (NoError for none) the validation that cfg enables can end
\* with on the record rec
ValidationOutcomes(cfg, v, rec) ==
  IF ~cfg.EnableValidation \/ v = NilValidator THEN {NoError}
  ELSE IF cfg.EnableSanitization
    THEN {va.Error : va \in ValidateAndSanitize(v, rec)}
  ELSE Validate(v, rec)

\* the record rec fails the validation that cfg enables
FailsValidation(cfg, v, rec) == NoError \notin ValidationOutcomes(cfg, v, rec)

\* the configuration of the processor with strict mode off
Lenient == [config EXCEPT !.StrictMode = FALSE]

\* what the call of caller c can return under the configuration cfg when the
\* worker's result is the one received
WorkerOutcomes(c, cfg) ==
  AfterProcessComment(cfg, validator,
    IF calls[c].comment = <<>>
      THEN [Data |-> NewCommentData(<<>>), Error |-> NoError]
    ELSE processCommentInternal(parsers, cfg, calls[c].comment, calls[c].delimiter,
                                calls[c].objectType))

\* C5: a call of ProcessCommentWithValidation whose ProcessComment returned
\* the worker's result (the deadline is the subject of C8) returns, in lenient
\* mode, a non-nil record and no error, whatever the parsers and the validator
\* found; in strict mode it returns no record and the wrapped parse error when
\* the registry fails on the text, and no record and the wrapped validation
\* error when the parsed record fails the enabled validation; and every input
\* for which the strict call returned such an error has, under the same
\* configuration with strict mode off, only returns with a record and no error.
C5_LenientSwallowsStrictPropagates ==
  \A c \in Callers :
    (Returned(c) /\ ~TimedOut(c)) =>
      /\ ~config.StrictMode =>
           /\ calls[c].ret.Data # NilData
           /\ calls[c].ret.Error = NoError
      /\ (config.StrictMode /\ ParseFails(c)) =>
           calls[c].ret = [Data |-> NilData,
                           Error |-> Errorf("failed to parse comment", ParseOf(c).Error)]
      /\ (config.StrictMode /\ ~ParseFails(c)
            /\ FailsValidation(config, validator, calls[c].processed.Data)) =>
           /\ calls[c].ret.Data = NilData
           /\ \E e \in ValidationOutcomes(config, validator, calls[c].processed.Data) :
                calls[c].ret.Error = Errorf("validation failed", e)
      /\ (config.StrictMode /\ calls[c].ret.Error # NoError) =>
           \A lr \in WorkerOutcomes(c, Lenient) : lr.Data # NilData /\ lr.Error = NoError

\* a lenient call with validation enabled returned a record and no error for
\* a text that every registered parser failed on
C5_Witness ==
  /\ ~config.StrictMode
  /\ config.EnableValidation
  /\ validator # NilValidator
  /\ Returned(1)
  /\ ~TimedOut(1)
  /\ parsers # <<>>
  /\ ParseFails(1)
  /\ calls[1].ret.Error = NoError
  /\ calls[1].ret.Data # NilData

\* C6: with a validator set and the worker's result received, a lenient call
\* with validation enabled whose parsed record fails the validation returns
\* without error a record that Sanitize makes of the parsed record if
\* sanitization is enabled, and the parsed record itself if it is not; a call
\* with validation disabled and sanitization enabled returns without error a
\* record that Sanitize makes of the parsed record, also when the record
\* would fail validation.
C6_LenientValidationFailure ==
  \A c \in Callers :
    (Returned(c) /\ validator # NilValidator /\ calls[c].processed.Error = NoError) =>
      /\ (~config.StrictMode /\ config.EnableValidation /\ config.EnableSanitization
            /\ FailsValidation(config, validator, calls[c].processed.Data)) =>
           /\ calls[c].ret.Error = NoError
           /\ calls[c].ret.Data \in Sanitize(validator, calls[c].processed.Data)
      /\ (~config.StrictMode /\ config.EnableValidation /\ ~config.EnableSanitization
            /\ FailsValidation(config, validator, calls[c].processed.Data)) =>
           calls[c].ret = [Data |-> calls[c].processed.Data, Error |-> NoError]
      /\ (~config.EnableValidation /\ config.EnableSanitization) =>
           /\ calls[c].ret.Error = NoError
           /\ calls[c].ret.Data \in Sanitize(validator, calls[c].processed.Data)

\* a lenient call with validation and sanitization enabled returned, for a
\* parsed record that fails the validation, a record that differs from the
\* parsed one
C6_Witness ==
  /\ ~config.StrictMode
  /\ config.EnableValidation
  /\ config.EnableSanitization
  /\ validator # NilValidator
  /\ Returned(1)
  /\ calls[1].processed.Error = NoError
  /\ ~ParseFails(1)
  /\ FailsValidation(config, validator, calls[1].processed.Data)
  /\ calls[1].ret.Error = NoError
  /\ calls[1].ret.Data # calls[1].processed.Data

\* C7: whenever ProcessCommentWithValidation(text, delimiter, T) returns a
\* record without error, for every text (the empty one included), delimiter,
\* object type and configuration, the record's metadata["object_type"] is T.
C7_ObjectTypeAnnotated ==
  \A c \in Callers :
    (Returned(c) /\ calls[c].ret.Error = NoError /\ calls[c].ret.Data # NilData) =>
      /\ K_object_type \in DOMAIN calls[c].ret.Data.Metadata
      /\ calls[c].ret.Data.Metadata[K_object_type] = calls[c].objectType

\* a call on a non-empty text that a parser parsed returned without error a
\* record whose metadata["object_type"] is not the object type of the call
C7_Witness ==
  /\ Returned(1)
  /\ calls[1].comment # <<>>
  /\ ~ParseFails(1)
  /\ calls[1].ret.Error = NoError
  /\ calls[1].ret.Data # NilData
  /\ K_object_type \in DOMAIN calls[1].ret.Data.Metadata
  /\ calls[1].ret.Data.Metadata[K_object_type] # calls[1].objectType

\* C8: every ProcessComment call on a non-empty text that waits in its select
\* comes to return, in strict and in lenient mode; what it returns is the
\* result of its worker (the record or the error of processCommentInternal on
\* the call's arguments) or, and then the timer has fired, no record and the
\* timeout error that names processing_timeout.
C8_ProcessCommentTerminates ==
  /\ [](\A c \in Callers :
          (calls[c].pc = "processed" /\ calls[c].comment # <<>>) =>
            \/ calls[c].processed =
                 processCommentInternal(parsers, config, calls[c].comment,
                                        calls[c].delimiter, calls[c].objectType)
            \/ /\ timer[c]
               /\ calls[c].processed =
                    [Data |-> NilData,
                     Error |-> [type |-> "errorString",
                                msg |-> "comment processing timeout after %d ms",
                                ms |-> config.ProcessingTimeout]])
  /\ \A c \in Callers : (calls[c].pc = "select") ~> (calls[c].pc = "processed")

\* in strict mode one ProcessComment call has returned the timeout error
\* while another has returned the error of its worker
C8_Witness ==
  /\ config.StrictMode
  /\ calls[1].pc = "processed"
  /\ TimedOut(1)
  /\ calls[2].pc = "processed"
  /\ ~TimedOut(2)
  /\ calls[2].comment # <<>>
  /\ calls[2].processed.Error # NoError

\* C9: a worker never finds the channel of its call full when it comes to
\* send, it sends once and the channel never holds more than that one result,
\* and a worker that has been started comes to its end whatever the timer and
\* the caller do, also when the caller has returned from the timer case and
\* nobody receives.
C9_WorkerNotLeaked ==
  /\ [](\A c \in Callers :
          /\ Len(done[c]) <= 1
          /\ workers[c].sends <= 1
          /\ workers[c].pc = "send" => done[c] = <<>>
          /\ workers[c].pc = "exit" => workers[c].sends = 1)
  /\ \A c \in Callers : (workers[c].pc \in {"run", "send"}) ~> (workers[c].pc = "exit")

\* the caller has returned from its call while the worker had not sent; the
\* worker has since sent its one result into the channel nobody reads and
\* has ended
C9_Witness ==
  /\ calls[1].pc = "idle"
  /\ workers[1].pc = "exit"
  /\ workers[1].sends = 1
  /\ Len(done[1]) = 1

\* what the call of caller c returns when it runs alone on the processor
AloneOutcomes(c) ==
  WorkerOutcomes(c, config) \cup
    (IF calls[c].comment = <<>> THEN {}
     ELSE AfterProcessComment(config, validator, TimeoutResult(config)))

\* C10: no step of a ProcessCommentWithValidation call (of the caller, its
\* worker or its timer) changes the registry's parsers and their priorities,
\* the validator or the configuration, and every call returns, whatever the
\* other callers of the shared processor do meanwhile, a result the call
\* returns when it runs alone.
C10_SharedReadOnly ==
  /\ [][(calls' # calls \/ workers' # workers \/ done' # done \/ timer' # timer) =>
          UNCHANGED <<parsers, config, validator>>]_vars
  /\ [](\A c \in Callers : Returned(c) => calls[c].ret \in AloneOutcomes(c))

\* two calls on different texts were under way together and both have
\* returned the record of their own text
C10_Witness ==
  /\ Returned(1)
  /\ Returned(2)
  /\ calls[1].comment # calls[2].comment
  /\ calls[1].ret.Error = NoError
  /\ calls[2].ret.Error = NoError
  /\ calls[1].ret.Data.Source = calls[1].comment
  /\ calls[2].ret.Data.Source = calls[2].comment

(* ---------------------------------------------------------------------- *)
(* Schema objects and EnhancedCommentDriverAdapter                         *)
(* ---------------------------------------------------------------------- *)

ObjectTypeIndex == <<"i", "n", "d", "e", "x">>
ObjectTypeConstraint == <<"c", "o", "n", "s", "t", "r", "a", "i", "n", "t">>
ObjectTypeTrigger == <<"t", "r", "i", "g", "g", "e", "r">>


\* a column, index, constraint or trigger as the driver read it
NewObject(name, comment) ==
  [Name |-> name, Comment |-> comment, LogicalName |-> <<>>, EnhancedComment |-> NilData]

\* a table as the driver read it
NewTable(name, comment, columns, indexes, constraints, triggers) ==
  [Name |-> name, Comment |-> comment, LogicalName |-> <<>>, EnhancedComment |-> NilData,
   Columns |-> columns, Indexes |-> indexes, Constraints |-> constraints,
   Triggers |-> triggers]

\* a nil *Schema
NilSchema == [nil |-> TRUE]

\* the comment texts of the schema objects: none, a JSON object, a text
\* with a quote
AdapterComments == {<<>>, S_json, S_quote}

\* the schemas handed to the adapter: nil, no table, one table with an
\* object of every kind, and two tables
Schemas ==
  {NilSchema, [Tables |-> <<>>]}
    \cup {[Tables |-> <<NewTable("t1", ct, <<NewObject("c1", cc)>>, <<NewObject("i1", ci)>>,
                                 <<NewObject("k1", <<>>)>>, <<NewObject("g1", cg)>>)>>]
            : ct \in AdapterComments, cc \in AdapterComments,
              ci \in AdapterComments, cg \in AdapterComments}
    \cup {[Tables |-> <<NewTable("t1", ct, <<NewObject("c1", cc), NewObject("c2", <<>>)>>,
                                 <<>>, <<NewObject("k1", ck)>>, <<>>),
                        NewTable("t2", cu, <<>>, <<>>, <<>>, <<NewObject("g2", S_json)>>)>>]
            : ct \in AdapterComments, cc \in AdapterComments,
              ck \in AdapterComments, cu \in AdapterComments}

\* the configuration NewEnhancedCommentDriverAdapter takes for a nil one
DefaultAdapterConfig ==
  [EnableValidation |-> TRUE, EnableSanitization |-> FALSE, DefaultDelimiter |-> <<"|">>,
   FallbackToLegacy |-> TRUE, StrictMode |-> FALSE, ProcessingTimeout |-> 1000]

\* a nil *ProcessingConfig
NilConfig == [nil |-> TRUE]

\* the configurations given to NewEnhancedCommentDriverAdapter
AdapterConfigs ==
  {NilConfig, DefaultProcessingConfig,
   [DefaultAdapterConfig EXCEPT !.StrictMode = TRUE],
   [DefaultProcessingConfig EXCEPT !.StrictMode = TRUE]}

\* the objects of a table in the order processTableComments takes them: the
\* table with i = 0, then its columns, indexes, constraints and triggers
WalkOfTable(t, table) ==
  <<[t |-> t, kind |-> "table", i |-> 0]>>
    \o [i \in 1..Len(table.Columns) |-> [t |-> t, kind |-> "column", i |-> i]]
    \o [i \in 1..Len(table.Indexes) |-> [t |-> t, kind |-> "index", i |-> i]]
    \o [i \in 1..Len(table.Constraints) |-> [t |-> t, kind |-> "constraint", i |-> i]]
    \o [i \in 1..Len(table.Triggers) |-> [t |-> t, kind |-> "trigger", i |-> i]]

\* the objects of the tables from t on in the order ProcessSchemaComments
\* takes them
RECURSIVE WalkFrom(_, _)
WalkFrom(schema, t) ==
  IF t > Len(schema.Tables) THEN <<>>
  ELSE WalkOfTable(t, schema.Tables[t]) \o WalkFrom(schema, t + 1)

\* the objects of a schema in the order ProcessSchemaComments takes them
WalkOrder(schema) == IF schema = NilSchema THEN <<>> ELSE WalkFrom(schema, 1)

\* the object of the schema at the place p of the walk
ObjectAt(schema, p) ==
  CASE p.kind = "table" -> schema.Tables[p.t]
    [] p.kind = "column" -> schema.Tables[p.t].Columns[p.i]
    [] p.kind = "index" -> schema.Tables[p.t].Indexes[p.i]
    [] p.kind = "constraint" -> schema.Tables[p.t].Constraints[p.i]
    [] p.kind = "trigger" -> schema.Tables[p.t].Triggers[p.i]

\* the schema with the fields of obj written to the object at the place p
WithObjectAt(schema, p, obj) ==
  CASE p.kind = "table" ->
         [schema EXCEPT !.Tables[p.t].Comment = obj.Comment,
                        !.Tables[p.t].LogicalName = obj.LogicalName,
                        !.Tables[p.t].EnhancedComment = obj.EnhancedComment]
    [] p.kind = "column" -> [schema EXCEPT !.Tables[p.t].Columns[p.i] = obj]
    [] p.kind = "index" -> [schema EXCEPT !.Tables[p.t].Indexes[p.i] = obj]
    [] p.kind = "constraint" -> [schema EXCEPT !.Tables[p.t].Constraints[p.i] = obj]
    [] p.kind = "trigger" -> [schema EXCEPT !.Tables[p.t].Triggers[p.i] = obj]

\* the object type the hook of an object of the kind hands to the processor
ObjectTypeOf(kind) ==
  CASE kind = "table" -> ObjectTypeTable
    [] kind = "column" -> ObjectTypeColumn
    [] kind = "index" -> ObjectTypeIndex
    [] kind = "constraint" -> ObjectTypeConstraint
    [] kind = "trigger" -> ObjectTypeTrigger

\* ProcessComment: the [Data, Error] pairs it can return, from the worker or
\* from the timer
ProcessCommentOf(ps, cfg, comment, delimiter, objectType) ==
  IF comment = <<>> THEN {[Data |-> NewCommentData(comment), Error |-> NoError]}
  ELSE {processCommentInternal(ps, cfg, comment,
                               IF delimiter = <<>> THEN cfg.DefaultDelimiter ELSE delimiter,
                               objectType),
        TimeoutResult(cfg)}

\* ProcessCommentWithValidation: the [Data, Error] pairs it can return
ProcessCommentWithValidationOf(ps, cfg, v, comment, delimiter, objectType) ==
  UNION {AfterProcessComment(cfg, v, processed)
           : processed \in ProcessCommentOf(ps, cfg, comment, delimiter, objectType)}

\* the hook ProcessEnhancedComment of a schema object from the return r of
\* the processor on the object's comment: the object after the call and the
\* error returned. An error leaves the object as it was; a record is
\* attached, a table and a column take its logical name, and a logical name
\* that is not the whole comment leaves the description as the comment
ProcessEnhancedComment(obj, kind, r) ==
  IF r.Error # NoError THEN [obj |-> obj, err |-> r.Error]
  ELSE [obj |-> [obj EXCEPT
                   !.EnhancedComment = r.Data,
                   !.LogicalName = IF kind \in {"table", "column"} /\ r.Data.LogicalName # <<>>
                                     THEN r.Data.LogicalName ELSE @,
                   !.Comment = IF r.Data.LogicalName # <<>> /\ r.Data.LogicalName # obj.Comment
                                 THEN r.Data.Description ELSE @],
        err |-> NoError]

\* the hook HasEnhancedComment of a schema object
HasEnhancedComment(obj) ==
  obj.EnhancedComment # NilData /\ ~IsEmpty(obj.EnhancedComment)

\* fmt.Errorf(msg + " %s ...: %w", name, cause)
ErrorfNamed(kind, name, msg, cause) ==
  [type |-> "wrapped", kind |-> kind, name |-> name, msg |-> msg, cause |-> cause]

\* processTableComments wrapping the error of the object at p without its
\* name
ObjectErrorUnnamed(schema, p, err) ==
  ErrorfNamed("table", schema.Tables[p.t].Name, "processing failed",
              Errorf("comment processing failed", err))

\* the error ProcessSchemaComments returns in strict mode when the hook of
\* the object at p returned err: processTableComments wraps it with the kind
\* and, but for the table itself, the name of the object, and
\* ProcessSchemaComments with the name of the table
ObjectError(schema, p, err) ==
  ErrorfNamed("table", schema.Tables[p.t].Name, "processing failed",
              IF p.kind = "table" THEN Errorf("table comment processing failed", err)
              ELSE ErrorfNamed(p.kind, ObjectAt(schema, p).Name,
                               "comment processing failed", err))

\* the number of the objects of a sequence that have an enhanced comment
RECURSIVE CountEnhanced(_)
CountEnhanced(objs) ==
  IF objs = <<>> THEN 0
  ELSE (IF HasEnhancedComment(Head(objs)) THEN 1 ELSE 0) + CountEnhanced(Tail(objs))

\* the statistics of no table
ZeroStatistics ==
  [TotalTables |-> 0, ProcessedTables |-> 0, TotalColumns |-> 0, ProcessedColumns |-> 0,
   TotalIndexes |-> 0, ProcessedIndexes |-> 0, TotalConstraints |-> 0,
   ProcessedConstraints |-> 0, TotalTriggers |-> 0, ProcessedTriggers |-> 0,
   ProcessingErrors |-> <<>>]

\* the loop of GetProcessingStatistics over the tables
RECURSIVE StatisticsLoop(_, _)
StatisticsLoop(tables, stats) ==
  IF tables = <<>> THEN stats
  ELSE StatisticsLoop(Tail(tables),
         [stats EXCEPT
            !.ProcessedTables = @ + (IF HasEnhancedComment(Head(tables)) THEN 1 ELSE 0),
            !.TotalColumns = @ + Len(Head(tables).Columns),
            !.ProcessedColumns = @ + CountEnhanced(Head(tables).Columns),
            !.TotalIndexes = @ + Len(Head(tables).Indexes),
            !.ProcessedIndexes = @ + CountEnhanced(Head(tables).Indexes),
            !.TotalConstraints = @ + Len(Head(tables).Constraints),
            !.ProcessedConstraints = @ + CountEnhanced(Head(tables).Constraints),
            !.TotalTriggers = @ + Len(Head(tables).Triggers),
            !.ProcessedTriggers = @ + CountEnhanced(Head(tables).Triggers)])

\* GetProcessingStatistics counting every table as processed
StatisticsOfAllProcessed(schema) ==
  [StatisticsLoop(schema.Tables, [ZeroStatistics EXCEPT !.TotalTables = Len(schema.Tables)])
     EXCEPT !.ProcessedTables = Len(schema.Tables)]

\* GetProcessingStatistics
StatisticsOf(schema) ==
  StatisticsLoop(schema.Tables, [ZeroStatistics EXCEPT !.TotalTables = Len(schema.Tables)])

\* the objects of the statistics
TotalObjects(stats) ==
  stats.TotalTables + stats.TotalColumns + stats.TotalIndexes + stats.TotalConstraints
    + stats.TotalTriggers

\* the objects of the statistics with an enhanced comment
ProcessedObjects(stats) ==
  stats.ProcessedTables + stats.ProcessedColumns + stats.ProcessedIndexes
    + stats.ProcessedConstraints + stats.ProcessedTriggers

\* GetProcessingRate: the quotient num / den that the code computes in
\* float64
GetProcessingRate(stats) ==
  IF TotalObjects(stats) = 0 THEN [num |-> 0, den |-> 1]
  ELSE [num |-> ProcessedObjects(stats) * 100, den |-> TotalObjects(stats)]

(* ---------------------------------------------------------------------- *)
(* EnhancedCommentDriverAdapter: operations                                *)
(* ---------------------------------------------------------------------- *)

\* the adapter with the schema the driver read and no call made. given is
\* the schema as the driver read it, visited the places whose hook was
\* called since, failed those of them whose hook returned an error
AdapterOn(schema) ==
  [pc |-> "idle", schema |-> schema, given |-> schema, pos |-> 0, err |-> NoError,
   visited |-> <<>>, failed |-> <<>>, stats |-> NilData, rate |-> NilData]

\* NewEnhancedCommentDriverAdapter(cfg) and a schema read by the driver
InitAdapter ==
  /\ \E cfg \in AdapterConfigs : config = IF cfg = NilConfig THEN DefaultAdapterConfig ELSE cfg
  /\ parsers = registerDefaultParsers
  /\ validator = NewDefaultCommentValidator
  /\ out = NoCall
  /\ calls = [c \in Callers |-> IdleCall]
  /\ workers = [c \in Callers |-> NoWorker]
  /\ done = [c \in Callers |-> <<>>]
  /\ timer = [c \in Callers |-> FALSE]
  /\ \E schema \in Schemas : adapter = AdapterOn(schema)
  /\ fn = NoFn
  /\ reporter = NoReporter

\* ProcessSchemaComments is called: it returns at once for a nil schema and
\* else comes to the first table. A run takes the statistics once, before
\* the call or after it
ProcessSchemaComments ==
  /\ adapter.pc = "idle"
  /\ adapter.stats = NilData
  /\ adapter' = IF adapter.schema = NilSchema
                  THEN [adapter EXCEPT !.pc = "returned",
                                       !.err = [type |-> "errorString",
                                                msg |-> "schema cannot be nil"]]
                ELSE [adapter EXCEPT !.pc = "walk", !.pos = 1]
  /\ UNCHANGED <<parsers, out, config, validator, calls, workers, done, timer, fn, reporter>>

\* one turn of the loops of ProcessSchemaComments and processTableComments:
\* the hook of the next object is called; in strict mode an error of the
\* hook ends the call
ProcessObject ==
  /\ adapter.pc = "walk"
  /\ adapter.pos <= Len(WalkOrder(adapter.schema))
  /\ LET p == WalkOrder(adapter.schema)[adapter.pos]
         obj == ObjectAt(adapter.schema, p)
     IN \E r \in ProcessCommentWithValidationOf(parsers, config, validator, obj.Comment,
                                                config.DefaultDelimiter, ObjectTypeOf(p.kind)) :
          LET h == ProcessEnhancedComment(obj, p.kind, r)
          IN adapter' =
               [adapter EXCEPT
                  !.schema = WithObjectAt(@, p, h.obj),
                  !.visited = Append(@, p),
                  !.failed = IF h.err # NoError THEN Append(@, p) ELSE @,
                  !.pos = @ + 1,
                  !.pc = IF h.err # NoError /\ config.StrictMode THEN "returned" ELSE @,
                  !.err = IF h.err # NoError /\ config.StrictMode
                            THEN ObjectError(adapter.schema, p, h.err) ELSE @]
  /\ UNCHANGED <<parsers, out, config, validator, calls, workers, done, timer, fn, reporter>>

\* the loops have come to their end: ProcessSchemaComments returns nil
ProcessSchemaReturn ==
  /\ adapter.pc = "walk"
  /\ adapter.pos > Len(WalkOrder(adapter.schema))
  /\ adapter' = [adapter EXCEPT !.pc = "returned"]
  /\ UNCHANGED <<parsers, out, config, validator, calls, workers, done, timer, fn, reporter>>

\* GetProcessingStatistics on the schema, before or after the walk, and
\* GetProcessingRate on what it returns
GetProcessingStatistics ==
  /\ adapter.pc \in {"idle", "returned"}
  /\ adapter.schema # NilSchema
  /\ adapter.stats = NilData
  /\ adapter' = [adapter EXCEPT !.stats = StatisticsOf(adapter.schema),
                                !.rate = GetProcessingRate(StatisticsOf(adapter.schema))]
  /\ UNCHANGED <<parsers, out, config, validator, calls, workers, done, timer, fn, reporter>>

NextAdapter ==
  \/ ProcessSchemaComments
  \/ ProcessObject
  \/ ProcessSchemaReturn
  \/ GetProcessingStatistics

SpecAdapter == InitAdapter /\ [][NextAdapter]_vars

(* ---------------------------------------------------------------------- *)
(* EnhancedCommentDriverAdapter: properties                                *)
(* ---------------------------------------------------------------------- *)

\* the places of the walk of the schema the adapter was given
GivenWalk == WalkOrder(adapter.given)

\* ProcessSchemaComments has been called on a schema that is not nil
Walking == adapter.pc \in {"walk", "returned"} /\ adapter.schema # NilSchema

\* the error names the kind and the name of the object at the place p
NamesObject(err, p) ==
  /\ err.type = "wrapped"
  /\ "name" \in DOMAIN err
  /\ err.kind = "table"
  /\ err.name = adapter.given.Tables[p.t].Name
  /\ IF p.kind = "table"
       THEN err.cause.msg = "table comment processing failed"
     ELSE /\ "name" \in DOMAIN err.cause
          /\ err.cause.kind = p.kind
          /\ err.cause.name = ObjectAt(adapter.given, p).Name

\* C11: in strict mode ProcessSchemaComments calls the hooks in the walk
\* order (the tables in schema order; of a table its comment, then its
\* columns, indexes, constraints and triggers); the first hook that fails
\* ends the call, which returns an error that names the kind and the name of
\* the failing object; no object after it in the walk order is visited, every
\* such object is as the adapter was given it, and nothing of the schema
\* changes once the call has returned.
C11_StrictStopsAtFirstFailure ==
  /\ []((config.StrictMode /\ Walking) =>
          /\ adapter.visited = SubSeq(GivenWalk, 1, Len(adapter.visited))
          /\ (adapter.failed # <<>>) =>
               /\ adapter.pc = "returned"
               /\ adapter.failed = <<adapter.visited[Len(adapter.visited)]>>
               /\ NamesObject(adapter.err, adapter.failed[1])
               /\ \A i \in (Len(adapter.visited) + 1)..Len(GivenWalk) :
                    ObjectAt(adapter.schema, GivenWalk[i]) = ObjectAt(adapter.given, GivenWalk[i])
          /\ (adapter.failed = <<>> /\ adapter.pc = "returned") =>
               /\ adapter.err = NoError
               /\ adapter.visited = GivenWalk)
  /\ [][(config.StrictMode /\ adapter.pc = "returned") =>
          /\ adapter'.schema = adapter.schema
          /\ adapter'.visited = adapter.visited]_vars

\* a strict call has returned the error of a column after the table's own
\* comment got its record, and an object with a comment after the column in
\* the walk order has no record
C11_Witness ==
  /\ config.StrictMode
  /\ adapter.pc = "returned"
  /\ Len(adapter.failed) = 1
  /\ adapter.failed[1].kind = "column"
  /\ HasEnhancedComment(adapter.schema.Tables[1])
  /\ \E i \in (Len(adapter.visited) + 1)..Len(GivenWalk) :
       /\ ObjectAt(adapter.given, GivenWalk[i]).Comment # <<>>
       /\ ObjectAt(adapter.schema, GivenWalk[i]).EnhancedComment = NilData

\* C12: in lenient mode ProcessSchemaComments visits every object of the
\* schema in the walk order also when the hooks of some fail and returns no
\* error, and the ProcessingErrors of the statistics taken after the call
\* hold one entry for every object whose hook failed.
C12_LenientRecordsFailures ==
  (~config.StrictMode /\ adapter.pc = "returned" /\ adapter.schema # NilSchema) =>
    /\ adapter.visited = GivenWalk
    /\ adapter.err = NoError
    /\ (adapter.stats # NilData) =>
         Len(adapter.stats.ProcessingErrors) = Len(adapter.failed)

\* a lenient call has visited every object and returned no error although
\* the hooks of two objects failed, and the statistics taken after it list
\* no error
C12_Witness ==
  /\ ~config.StrictMode
  /\ adapter.pc = "returned"
  /\ adapter.schema # NilSchema
  /\ adapter.visited = GivenWalk
  /\ adapter.err = NoError
  /\ Len(adapter.failed) = 2
  /\ adapter.stats # NilData
  /\ adapter.stats.ProcessingErrors = <<>>

\* the places of the kind in the walk of the adapter's schema
PlacesOf(kind) ==
  {i \in 1..Len(WalkOrder(adapter.schema)) : WalkOrder(adapter.schema)[i].kind = kind}

\* those of them whose object has a record attached that is not empty
ProcessedPlacesOf(kind) ==
  {i \in PlacesOf(kind) :
     LET obj == ObjectAt(adapter.schema, WalkOrder(adapter.schema)[i])
     IN obj.EnhancedComment # NilData /\ ~IsEmpty(obj.EnhancedComment)}

\* the statistics count total objects and processed objects of the kind
CountsKind(total, processed, kind) ==
  /\ total = Cardinality(PlacesOf(kind))
  /\ processed = Cardinality(ProcessedPlacesOf(kind))
  /\ 0 <= processed
  /\ processed <= total

\* every object of the schema the adapter was given has the empty comment
AllCommentsEmpty ==
  \A i \in 1..Len(GivenWalk) : ObjectAt(adapter.given, GivenWalk[i]).Comment = <<>>

\* C13: the statistics of a schema give for every kind the number of its
\* objects as the total and the number of its objects with an attached record
\* that is not empty as the processed count, with 0 <= processed <= total; the
\* overall rate is 100 * (sum of processed) / (sum of totals), lies in
\* [0, 100], and is 0 for a schema without objects and for a schema walked
\* with every comment empty.
C13_StatisticsCountObjects ==
  (adapter.pc \in {"idle", "returned"} /\ adapter.stats # NilData) =>
    /\ CountsKind(adapter.stats.TotalTables, adapter.stats.ProcessedTables, "table")
    /\ CountsKind(adapter.stats.TotalColumns, adapter.stats.ProcessedColumns, "column")
    /\ CountsKind(adapter.stats.TotalIndexes, adapter.stats.ProcessedIndexes, "index")
    /\ CountsKind(adapter.stats.TotalConstraints, adapter.stats.ProcessedConstraints,
                  "constraint")
    /\ CountsKind(adapter.stats.TotalTriggers, adapter.stats.ProcessedTriggers, "trigger")
    /\ adapter.rate.den > 0
    /\ adapter.rate.num * Len(WalkOrder(adapter.schema)) =
         100 * adapter.rate.den
           * Cardinality(UNION {ProcessedPlacesOf(kind) :
                                  kind \in {"table", "column", "index", "constraint", "trigger"}})
    /\ 0 <= adapter.rate.num
    /\ adapter.rate.num <= 100 * adapter.rate.den
    /\ (WalkOrder(adapter.schema) = <<>>) => adapter.rate.num = 0
    /\ (adapter.pc = "returned" /\ AllCommentsEmpty) => adapter.rate.num = 0

\* the statistics were taken after a walk that left some objects with a
\* record and others without: the rate is neither 0 nor 100
C13_Witness ==
  /\ adapter.pc = "returned"
  /\ adapter.stats # NilData
  /\ adapter.visited # <<>>
  /\ adapter.stats.ProcessedColumns = 1
  /\ adapter.stats.TotalColumns = 2
  /\ adapter.stats.ProcessedTables < adapter.stats.TotalTables
  /\ 0 < adapter.rate.num
  /\ adapter.rate.num < 100 * adapter.rate.den

(* ---------------------------------------------------------------------- *)
(* EnhancedCommentProcessor: the constructors                              *)
(* ---------------------------------------------------------------------- *)

\* an EnhancedCommentConfigurator: what its methods return
NewConfigurator(enabled, json, yaml, format, validation, sanitization, level, strict) ==
  [IsEnhancedCommentEnabled |-> enabled,
   IsEnhancedCommentJSONEnabled |-> json,
   IsEnhancedCommentYAMLEnabled |-> yaml,
   EnhancedCommentPreferredFormat |-> format,
   IsEnhancedCommentValidationEnabled |-> validation,
   IsEnhancedCommentSanitizationEnabled |-> sanitization,
   EnhancedCommentSecurityLevel |-> level,
   IsEnhancedCommentStrictMode |-> strict,
   EnhancedCommentProcessingTimeout |-> 1000,
   LogicalNameDelimiter |-> <<"|">>]

\* the configurators handed to NewEnhancedCommentProcessorFromConfig
Configurators ==
  {NewConfigurator(enabled, json, yaml, format, validation, sanitization, level, strict)
     : enabled \in BOOLEAN, json \in BOOLEAN, yaml \in BOOLEAN,
       format \in {"auto", "json", "yaml", "legacy", "xml"},
       validation \in BOOLEAN, sanitization \in BOOLEAN,
       level \in {"default", "strict", "permissive"},
       strict \in BOOLEAN}

\* the ProcessingConfig NewEnhancedCommentProcessorFromConfig builds
ProcessingConfigFrom(configurator) ==
  [EnableValidation |-> configurator.IsEnhancedCommentValidationEnabled,
   EnableSanitization |-> configurator.IsEnhancedCommentSanitizationEnabled,
   DefaultDelimiter |-> configurator.LogicalNameDelimiter,
   FallbackToLegacy |-> TRUE,
   StrictMode |-> configurator.IsEnhancedCommentStrictMode,
   ProcessingTimeout |-> configurator.EnhancedCommentProcessingTimeout]

\* RegisterParser on the processor's registry
Register(ps, parser) == RegisterInto(ps, Registered(ps, parser))

\* the parsers registerParsersFromConfig registers before the fallback, in
\* the order of the calls
PreferredParsers(configurator) ==
  CASE configurator.EnhancedCommentPreferredFormat = "json" ->
         (IF configurator.IsEnhancedCommentJSONEnabled
            THEN <<SetPriority(NewJSONParser, 5)>> ELSE <<>>)
         \o (IF configurator.IsEnhancedCommentYAMLEnabled
               THEN <<SetPriority(NewYAMLParser, 15)>> ELSE <<>>)
    [] configurator.EnhancedCommentPreferredFormat = "yaml" ->
         (IF configurator.IsEnhancedCommentYAMLEnabled
            THEN <<SetPriority(NewYAMLParser, 5)>> ELSE <<>>)
         \o (IF configurator.IsEnhancedCommentJSONEnabled
               THEN <<SetPriority(NewJSONParser, 10)>> ELSE <<>>)
    [] configurator.EnhancedCommentPreferredFormat = "legacy" ->
         <<SetPriority(NewLegacyParser, 5)>>
    [] OTHER ->
         (IF configurator.IsEnhancedCommentJSONEnabled
            THEN <<SetPriority(NewJSONParser, 10)>> ELSE <<>>)
         \o (IF configurator.IsEnhancedCommentYAMLEnabled
               THEN <<SetPriority(NewYAMLParser, 15)>> ELSE <<>>)

\* the parsers of a sequence registered one after the other
RECURSIVE RegisterAll(_, _)
RegisterAll(ps, new) ==
  IF new = <<>> THEN ps ELSE RegisterAll(Register(ps, Head(new)), Tail(new))

\* registerParsersFromConfig with the case "legacy" falling through to the
\* registration of the fallback
registerParsersFromConfigNoReturn(configurator) ==
  RegisterAll(<<>>, Append(PreferredParsers(configurator), SetPriority(NewLegacyParser, 20)))

\* registerParsersFromConfig on the empty registry
registerParsersFromConfig(configurator) ==
  IF configurator.EnhancedCommentPreferredFormat = "legacy"
    THEN RegisterAll(<<>>, PreferredParsers(configurator))
  ELSE RegisterAll(<<>>, Append(PreferredParsers(configurator),
                                SetPriority(NewLegacyParser, 20)))

\* the preset createValidatorFromConfig selects
PresetOf(securityLevel) ==
  CASE securityLevel = "strict" -> StrictValidationConfig
    [] securityLevel = "permissive" -> PermissiveValidationConfig
    [] OTHER -> DefaultValidationConfig

\* createValidatorFromConfig
createValidatorFromConfig(configurator) ==
  IF ~configurator.IsEnhancedCommentValidationEnabled THEN NewDefaultCommentValidator
  ELSE NewDefaultCommentValidatorWithConfig(
         [PresetOf(configurator.EnhancedCommentSecurityLevel) EXCEPT
            !.EnableHTMLEscape = configurator.IsEnhancedCommentSanitizationEnabled,
            !.EnableSQLInjectionCheck = configurator.IsEnhancedCommentValidationEnabled])

\* the calls that make a processor
Constructors ==
  {[name |-> "NewEnhancedCommentProcessor"]}
    \cup {[name |-> "NewEnhancedCommentProcessorWithConfig", config |-> cfg]
            : cfg \in AdapterConfigs \ {NilConfig}}
    \cup {[name |-> "NewEnhancedCommentProcessorFromConfig", configurator |-> configurator]
            : configurator \in Configurators}

\* the processor the constructor returns: [parsers, validator, config]
Construct(ctor) ==
  CASE ctor.name = "NewEnhancedCommentProcessor" ->
         [parsers |-> registerDefaultParsers, validator |-> NewDefaultCommentValidator,
          config |-> DefaultProcessingConfig]
    [] ctor.name = "NewEnhancedCommentProcessorWithConfig" ->
         [parsers |-> registerDefaultParsers, validator |-> NewDefaultCommentValidator,
          config |-> ctor.config]
    [] ctor.name = "NewEnhancedCommentProcessorFromConfig" ->
         IF ~ctor.configurator.IsEnhancedCommentEnabled
           THEN [parsers |-> registerDefaultParsers, validator |-> NewDefaultCommentValidator,
                 config |-> DefaultProcessingConfig]
         ELSE [parsers |-> registerParsersFromConfig(ctor.configurator),
               validator |-> createValidatorFromConfig(ctor.configurator),
               config |-> ProcessingConfigFrom(ctor.configurator)]

\* test'; DROP TABLE users; --
S_sqlname ==
  <<"t", "e", "s", "t", "'", ";", " ", "D", "R", "O", "P", " ", "T", "A", "B", "L", "E",
    " ", "u", "s", "e", "r", "s", ";", " ", "-", "-">>

\* the texts handed to a constructed processor
ConstructedComments == {S_yamlmap, S_json, <<"a">>}

\* the logical names handed to the validator of a constructed processor
ValidatedNames == {S_sqlname, <<"a">>, <<"a", "<", "b">>}

\* a processor made by one of the constructors; fn.ctor keeps the call
InitConstructed ==
  /\ \E ctor \in Constructors :
       /\ parsers = Construct(ctor).parsers
       /\ validator = Construct(ctor).validator
       /\ config = Construct(ctor).config
       /\ fn = [op |-> "none", ctor |-> ctor]
  /\ out = NoCall
  /\ calls = [c \in Callers |-> IdleCall]
  /\ workers = [c \in Callers |-> NoWorker]
  /\ done = [c \in Callers |-> <<>>]
  /\ timer = [c \in Callers |-> FALSE]
  /\ adapter = NoAdapter
  /\ reporter = NoReporter

\* GetSupportedFormats
GetSupportedFormats ==
  /\ fn.op = "none"
  /\ fn' = [op |-> "GetSupportedFormats", ctor |-> fn.ctor,
            ret |-> [i \in 1..Len(parsers) |-> parsers[i].name]]
  /\ UNCHANGED <<parsers, out, config, validator, calls, workers, done, timer, adapter, reporter>>

\* ProcessCommentWithValidation from the call to the return
ProcessCommentWithValidation(comment, objectType) ==
  /\ fn.op = "none"
  /\ \E ret \in ProcessCommentWithValidationOf(parsers, config, validator, comment, <<>>,
                                               objectType) :
       fn' = [op |-> "ProcessCommentWithValidation", ctor |-> fn.ctor,
              comment |-> comment, ret |-> ret]
  /\ UNCHANGED <<parsers, out, config, validator, calls, workers, done, timer, adapter, reporter>>

\* Validate of the processor's validator on a record with the logical name
ValidateName(name) ==
  /\ fn.op = "none"
  /\ \E err \in Validate(validator, [NewCommentData(name) EXCEPT !.LogicalName = name]) :
       fn' = [op |-> "Validate", ctor |-> fn.ctor, name |-> name, ret |-> err]
  /\ UNCHANGED <<parsers, out, config, validator, calls, workers, done, timer, adapter, reporter>>

NextConstructed ==
  \/ GetSupportedFormats
  \/ \E comment \in ConstructedComments : ProcessCommentWithValidation(comment, ObjectTypeTable)
  \/ \E name \in ValidatedNames : ValidateName(name)

SpecConstructed == InitConstructed /\ [][NextConstructed]_vars

(* ---------------------------------------------------------------------- *)
(* EnhancedCommentProcessor: properties of the constructors                *)
(* ---------------------------------------------------------------------- *)

\* the processor was made by NewEnhancedCommentProcessorFromConfig
FromConfig == fn.ctor.name = "NewEnhancedCommentProcessorFromConfig"

\* the names and priorities of the registered parsers in registry order
RegisteredAs == [i \in 1..Len(parsers) |-> <<parsers[i].name, parsers[i].priority>>]

\* the names of the registered parsers in registry order
RegisteredNames == [i \in 1..Len(parsers) |-> parsers[i].name]

\* the entry <<name, priority>> if the format is enabled
IfEnabled(enabled, name, priority) == IF enabled THEN <<<<name, priority>>>> ELSE <<>>

\* GetSupportedFormats returned the registered names, which stand in
\* ascending priority, and legacy is one of them
ListedInPriorityOrder ==
  /\ (fn.op = "GetSupportedFormats") => fn.ret = RegisteredNames
  /\ \A i \in 1..Len(parsers), j \in 1..Len(parsers) :
       i < j => parsers[i].priority <= parsers[j].priority
  /\ \E i \in 1..Len(parsers) : parsers[i].name = "legacy"

\* C14 as stated: NewEnhancedCommentProcessorFromConfig registers, for the
\* preferred format auto, JSON(10), YAML(15), Legacy(20); for json, JSON(5),
\* YAML(15) if YAML is enabled, Legacy(20); for yaml, YAML(5), JSON(10) if JSON
\* is enabled, Legacy(20); for legacy, Legacy alone; GetSupportedFormats lists
\* them in that priority order and Legacy is registered under every
\* configuration.
C14_RegistersByPreferredFormat ==
  FromConfig =>
    LET c == fn.ctor.configurator
        pf == c.EnhancedCommentPreferredFormat
    IN /\ (pf = "auto") =>
            RegisteredAs = <<<<"json", 10>>, <<"yaml", 15>>, <<"legacy", 20>>>>
       /\ (pf = "json") =>
            RegisteredAs = <<<<"json", 5>>>>
                             \o IfEnabled(c.IsEnhancedCommentYAMLEnabled, "yaml", 15)
                             \o <<<<"legacy", 20>>>>
       /\ (pf = "yaml") =>
            RegisteredAs = <<<<"yaml", 5>>>>
                             \o IfEnabled(c.IsEnhancedCommentJSONEnabled, "json", 10)
                             \o <<<<"legacy", 20>>>>
       /\ (pf = "legacy") => RegisteredNames = <<"legacy">>
       /\ ListedInPriorityOrder

\* C14 amended: with enhanced comments enabled,
\* NewEnhancedCommentProcessorFromConfig registers, for the preferred format
\* auto and for every value that is none of json, yaml and legacy, JSON(10) if
\* JSON is enabled, YAML(15) if YAML is enabled, Legacy(20); for json, JSON(5)
\* if JSON is enabled, YAML(15) if YAML is enabled, Legacy(20); for yaml,
\* YAML(5) if YAML is enabled, JSON(10) if JSON is enabled, Legacy(20); for
\* legacy, Legacy alone; with enhanced comments disabled it returns the
\* default processor with JSON(10) and Legacy(1000); GetSupportedFormats
\* lists them in that priority order and Legacy is registered under every
\* configuration.
C14_RegistersEnabledByPreferredFormat ==
  FromConfig =>
    LET c == fn.ctor.configurator
        pf == c.EnhancedCommentPreferredFormat
        json == c.IsEnhancedCommentJSONEnabled
        yaml == c.IsEnhancedCommentYAMLEnabled
    IN /\ (c.IsEnhancedCommentEnabled /\ pf \notin {"json", "yaml", "legacy"}) =>
            RegisteredAs = IfEnabled(json, "json", 10) \o IfEnabled(yaml, "yaml", 15)
                             \o <<<<"legacy", 20>>>>
       /\ (c.IsEnhancedCommentEnabled /\ pf = "json") =>
            RegisteredAs = IfEnabled(json, "json", 5) \o IfEnabled(yaml, "yaml", 15)
                             \o <<<<"legacy", 20>>>>
       /\ (c.IsEnhancedCommentEnabled /\ pf = "yaml") =>
            RegisteredAs = IfEnabled(yaml, "yaml", 5) \o IfEnabled(json, "json", 10)
                             \o <<<<"legacy", 20>>>>
       /\ (c.IsEnhancedCommentEnabled /\ pf = "legacy") => RegisteredNames = <<"legacy">>
       /\ (~c.IsEnhancedCommentEnabled) =>
            RegisteredAs = <<<<"json", 10>>, <<"legacy", 1000>>>>
       /\ ListedInPriorityOrder

\* a processor made for the preferred format json with JSON disabled and
\* YAML enabled lists yaml and legacy
C14_Witness ==
  /\ FromConfig
  /\ fn.ctor.configurator.IsEnhancedCommentEnabled
  /\ fn.ctor.configurator.EnhancedCommentPreferredFormat = "json"
  /\ ~fn.ctor.configurator.IsEnhancedCommentJSONEnabled
  /\ fn.ctor.configurator.IsEnhancedCommentYAMLEnabled
  /\ fn.op = "GetSupportedFormats"
  /\ fn.ret = <<"yaml", "legacy">>

\* the processor was made by NewEnhancedCommentProcessor or by
\* NewEnhancedCommentProcessorWithConfig
DefaultConstructed ==
  fn.ctor.name \in {"NewEnhancedCommentProcessor", "NewEnhancedCommentProcessorWithConfig"}

\* ProcessCommentWithValidation on the YAML mapping text returned a record
ProcessedYAMLMapping ==
  /\ fn.op = "ProcessCommentWithValidation"
  /\ fn.comment = S_yamlmap
  /\ fn.ret.Error = NoError

\* C15: a processor made by NewEnhancedCommentProcessor or by
\* NewEnhancedCommentProcessorWithConfig that returns a record for the YAML
\* mapping text "name: X\ndescription: Y\ntags:\n  - t" returns the reading of
\* the YAML parser: logical name X, description Y and the tags [t].
C15_DefaultProcessorReadsYAML ==
  (DefaultConstructed /\ ProcessedYAMLMapping) =>
    /\ fn.ret.Data.LogicalName = <<"X">>
    /\ fn.ret.Data.Description = <<"Y">>
    /\ fn.ret.Data.Tags = <<<<"t">>>>

\* a processor made by NewEnhancedCommentProcessor returned for the YAML
\* mapping text a record without tags whose logical name is longer than X
C15_Witness ==
  /\ fn.ctor.name = "NewEnhancedCommentProcessor"
  /\ ProcessedYAMLMapping
  /\ Len(fn.ret.Data.LogicalName) > 1
  /\ fn.ret.Data.Tags = <<>>

\* C16: a processor made from a configurator with validation enabled has the
\* validator of the preset its security level names (permissive: limits 200 /
\* 2000 / 50 tags, no allowed-character pattern, no forbidden words, HTML
\* escape off and SQL injection check off; strict and default: their own
\* presets), and the permissive one passes the logical name
\* "test'; DROP TABLE users; --".
C16_SecurityLevelSelectsPreset ==
  (FromConfig /\ fn.ctor.configurator.IsEnhancedCommentEnabled
     /\ fn.ctor.configurator.IsEnhancedCommentValidationEnabled) =>
    LET level == fn.ctor.configurator.EnhancedCommentSecurityLevel
    IN /\ (level = "permissive") =>
            /\ validator.config = PermissiveValidationConfig
            /\ (fn.op = "Validate" /\ fn.name = S_sqlname) => fn.ret = NoError
       /\ (level = "strict") => validator.config = StrictValidationConfig
       /\ (level = "default") => validator.config = DefaultValidationConfig

\* the validator of a processor made with the security level permissive
\* and sanitization off has the limits of the permissive preset and rejects
\* the logical name
C16_Witness ==
  /\ FromConfig
  /\ fn.ctor.configurator.IsEnhancedCommentEnabled
  /\ fn.ctor.configurator.IsEnhancedCommentValidationEnabled
  /\ ~fn.ctor.configurator.IsEnhancedCommentSanitizationEnabled
  /\ fn.ctor.configurator.EnhancedCommentSecurityLevel = "permissive"
  /\ validator.config.MaxLogicalNameLength = 200
  /\ validator.config.ForbiddenWords = <<>>
  /\ fn.op = "Validate"
  /\ fn.name = S_sqlname
  /\ fn.ret # NoError

(* ---------------------------------------------------------------------- *)
(* CommentData.Merge                                                       *)
(* ---------------------------------------------------------------------- *)

\* the loop of Merge over other.Tags: a tag is appended unless tagSet, the
\* tags seen so far, holds it
RECURSIVE MergeTagsLoop(_, _, _)
MergeTagsLoop(tags, tagSet, otherTags) ==
  IF otherTags = <<>> THEN tags
  ELSE IF Head(otherTags) \in tagSet THEN MergeTagsLoop(tags, tagSet, Tail(otherTags))
  ELSE MergeTagsLoop(Append(tags, Head(otherTags)), tagSet \cup {Head(otherTags)},
                     Tail(otherTags))

\* the tags of Merge
MergeTags(tags, otherTags) ==
  IF Len(otherTags) > 0
    THEN MergeTagsLoop(tags, {tags[i] : i \in 1..Len(tags)}, otherTags)
  ELSE tags

\* the metadata of Merge: the entries of this win
MergeMetadata(metadata, otherMetadata) ==
  [k \in (DOMAIN metadata) \cup (DOMAIN otherMetadata) |->
     IF k \in DOMAIN metadata THEN metadata[k] ELSE otherMetadata[k]]

\* (*CommentData).Merge
Merge(cd, other) ==
  IF cd = NilData THEN Clone(other)
  ELSE IF other = NilData THEN Clone(cd)
  ELSE [Clone(cd) EXCEPT
          !.LogicalName = IF cd.LogicalName = <<>> /\ other.LogicalName # <<>>
                            THEN other.LogicalName ELSE @,
          !.Description = IF cd.Description = <<>> /\ other.Description # <<>>
                            THEN other.Description ELSE @,
          !.Tags = MergeTags(cd.Tags, other.Tags),
          !.Metadata = MergeMetadata(cd.Metadata, other.Metadata)]

\* where the tags and the metadata of the record Clone returns are stored:
\* in a slice and a map that Clone makes, or nowhere when cd has none
CloneStorage(cd) ==
  [Tags |-> IF Len(cd.Tags) > 0 THEN "made" ELSE "none",
   Metadata |-> IF Cardinality(DOMAIN cd.Metadata) > 0 THEN "made" ELSE "none"]

\* where the tags and the metadata of the record Merge returns are stored:
\* append to the clone's slice, which is as long as its capacity, makes a
\* new one, and a clone without a map is given a map that Merge makes
MergeStorage(cd, other) ==
  IF cd = NilData THEN (IF other = NilData THEN [Tags |-> "none", Metadata |-> "none"]
                        ELSE CloneStorage(other))
  ELSE IF other = NilData THEN CloneStorage(cd)
  ELSE [Tags |-> IF Len(MergeTags(cd.Tags, other.Tags)) > 0 THEN "made" ELSE "none",
        Metadata |-> IF Cardinality(DOMAIN other.Metadata) > 0 THEN "made"
                     ELSE CloneStorage(cd).Metadata]

(* ---------------------------------------------------------------------- *)
(* The parsers, Sanitize and Merge applied to drawn inputs                 *)
(* ---------------------------------------------------------------------- *)

\* the texts handed to the parsers: those of the callers and texts with
\* whitespace around them
ParserTexts ==
  Comments \cup {<<" ">> \o S_json, S_json \o <<"\n">>, <<" ">> \o S_yaml \o <<" ">>,
                 <<" ", "a", " ">>, S_yamlmap}

\* the parsers the texts are handed to: those of the constructors and
\* structured parsers whose maximum size is the size of a sample or one less
Parsers ==
  {NewJSONParser, NewYAMLParser, NewLegacyParser,
   NewJSONParserWithLimits(5, ByteLen(S_json)), NewJSONParserWithLimits(5, ByteLen(S_json) - 1),
   NewYAMLParserWithLimits(5, ByteLen(S_yaml)), NewYAMLParserWithLimits(5, ByteLen(S_yaml) - 1)}

\* the validators of the three profiles
ProfileValidators ==
  {NewDefaultCommentValidator,
   NewDefaultCommentValidatorWithConfig(StrictValidationConfig),
   NewDefaultCommentValidatorWithConfig(PermissiveValidationConfig)}

\* a parser and a text are drawn
InitParsers ==
  /\ \E parser \in Parsers, comment \in ParserTexts, delimiter \in Delimiters :
       fn = [op |-> "none", parser |-> parser, comment |-> comment, delimiter |-> delimiter]
  /\ parsers = <<>>
  /\ out = NoCall
  /\ config = DefaultProcessingConfig
  /\ validator = NewDefaultCommentValidator
  /\ calls = [c \in Callers |-> IdleCall]
  /\ workers = [c \in Callers |-> NoWorker]
  /\ done = [c \in Callers |-> <<>>]
  /\ timer = [c \in Callers |-> FALSE]
  /\ adapter = NoAdapter
  /\ reporter = NoReporter

\* parser.CanParse(comment)
CanParseOn ==
  /\ fn.op = "none"
  /\ "can" \notin DOMAIN fn
  /\ fn' = fn @@ [can |-> CanParse(fn.parser, fn.comment)]
  /\ UNCHANGED <<parsers, out, config, validator, calls, workers, done, timer, adapter, reporter>>

\* parser.ParseComment(comment, delimiter)
ParseCommentOn ==
  /\ fn.op = "none"
  /\ fn' = [fn EXCEPT !.op = "ParseComment"]
             @@ [ret |-> ParseComment(fn.parser, fn.comment, fn.delimiter)]
  /\ UNCHANGED <<parsers, out, config, validator, calls, workers, done, timer, adapter, reporter>>

\* the steps of the processor after the parser on the record it returned:
\* the object type is written and the record is sanitized
StepsOnParsed ==
  /\ fn.op = "ParseComment"
  /\ fn.ret.Error = NoError
  /\ \E sanitized \in Sanitize(validator, WithMetadata(fn.ret.Data, K_object_type,
                                                       ObjectTypeTable)) :
       fn' = [fn EXCEPT !.op = "Sanitize"] @@ [sanitized |-> sanitized]
  /\ UNCHANGED <<parsers, out, config, validator, calls, workers, done, timer, adapter, reporter>>

NextParsers == CanParseOn \/ ParseCommentOn \/ StepsOnParsed

SpecParsers == InitParsers /\ [][NextParsers]_vars

\* the logical names of the records handed to Sanitize
SanitizeNames ==
  {<<>>, <<"a">>, <<" ", "a", " ", " ", "b", "\t">>, <<"a", "&", "b">>, <<"a", "<", "b">>,
   <<NUL, " ", "a">>, <<"a", FW>>}

\* the tags of the records handed to Sanitize
SanitizeTags == {<<>>, <<<<" ">>, <<"t">>>>, <<<<"t", " ">>, <<"t">>, <<"a", " ", NUL>>>>}

\* the metadata of the records handed to Sanitize
SanitizeMetadatas ==
  {EmptyMap,
   (<<"k", " ">> :> <<"v">>) @@ (<<"k">> :> <<"w">>),
   (<<" ">> :> <<"v">>) @@ (<<"k">> :> <<"\n">>) @@ (<<NUL, " ", NUL>> :> <<"v", "\n", "\n", "w">>)}

\* the records handed to Sanitize
SanitizeRecords ==
  {[NewCommentData(<<"s">>) EXCEPT !.LogicalName = name, !.Description = description,
                                   !.Tags = tags, !.Metadata = metadata]
     : name \in SanitizeNames, description \in {<<>>, <<"d", "\n", "\n", "e">>},
       tags \in SanitizeTags, metadata \in SanitizeMetadatas}

\* a validator of one of the profiles and a record are drawn
InitSanitize ==
  /\ validator \in ProfileValidators
  /\ \E data \in SanitizeRecords : fn = [op |-> "none", data |-> data]
  /\ parsers = <<>>
  /\ out = NoCall
  /\ config = DefaultProcessingConfig
  /\ calls = [c \in Callers |-> IdleCall]
  /\ workers = [c \in Callers |-> NoWorker]
  /\ done = [c \in Callers |-> <<>>]
  /\ timer = [c \in Callers |-> FALSE]
  /\ adapter = NoAdapter
  /\ reporter = NoReporter

\* validator.Sanitize(data); data stays what the caller holds
SanitizeData ==
  /\ fn.op = "none"
  /\ \E ret \in Sanitize(validator, fn.data) :
       fn' = [op |-> "Sanitize", data |-> fn.data, ret |-> ret]
  /\ UNCHANGED <<parsers, out, config, validator, calls, workers, done, timer, adapter, reporter>>

\* validator.Sanitize on the record Sanitize returned
SanitizeAgain ==
  /\ fn.op = "Sanitize"
  /\ \E again \in Sanitize(validator, fn.ret) :
       fn' = [op |-> "SanitizeAgain", data |-> fn.data, ret |-> fn.ret, again |-> again]
  /\ UNCHANGED <<parsers, out, config, validator, calls, workers, done, timer, adapter, reporter>>

\* validator.Sanitize called again on the record the caller holds
SanitizeSame ==
  /\ fn.op = "Sanitize"
  /\ \E same \in Sanitize(validator, fn.data) :
       fn' = [op |-> "SanitizeSame", data |-> fn.data, ret |-> fn.ret, same |-> same]
  /\ UNCHANGED <<parsers, out, config, validator, calls, workers, done, timer, adapter, reporter>>

NextSanitize == SanitizeData \/ SanitizeAgain \/ SanitizeSame

SpecSanitize == InitSanitize /\ [][NextSanitize]_vars

\* the tags of the records handed to Merge
MergeTagChoices ==
  {<<>>, <<<<"x">>>>, <<<<"x">>, <<"x">>>>, <<<<"x">>, <<"y">>>>, <<<<"y">>, <<"x">>, <<"z">>>>}

\* the records handed to Merge
MergeRecords ==
  {NilData}
    \cup {[NewCommentData(<<"s">> \o name) EXCEPT !.LogicalName = name,
                                                  !.Description = description,
                                                  !.Priority = priority, !.Tags = tags,
                                                  !.Metadata = metadata]
            : name \in {<<>>, <<"a">>, <<"b">>}, description \in {<<>>, <<"d">>},
              priority \in {0, 5}, tags \in MergeTagChoices,
              metadata \in {EmptyMap, <<"k">> :> <<"v">>,
                            (<<"k">> :> <<"w">>) @@ (<<"m">> :> <<"u">>)}}

\* two records are drawn
InitMerge ==
  /\ \E cd \in MergeRecords, other \in MergeRecords :
       fn = [op |-> "none", cd |-> cd, other |-> other]
  /\ parsers = <<>>
  /\ out = NoCall
  /\ config = DefaultProcessingConfig
  /\ validator = NewDefaultCommentValidator
  /\ calls = [c \in Callers |-> IdleCall]
  /\ workers = [c \in Callers |-> NoWorker]
  /\ done = [c \in Callers |-> <<>>]
  /\ timer = [c \in Callers |-> FALSE]
  /\ adapter = NoAdapter
  /\ reporter = NoReporter

\* cd.Merge(other)
MergeData ==
  /\ fn.op = "none"
  /\ fn' = [op |-> "Merge", cd |-> fn.cd, other |-> fn.other, ret |-> Merge(fn.cd, fn.other),
            stores |-> MergeStorage(fn.cd, fn.other)]
  /\ UNCHANGED <<parsers, out, config, validator, calls, workers, done, timer, adapter, reporter>>

NextMerge == MergeData

SpecMerge == InitMerge /\ [][NextMerge]_vars

(* ---------------------------------------------------------------------- *)
(* The parsers, Sanitize and Merge: properties                             *)
(* ---------------------------------------------------------------------- *)

\* C17: the record a parser (JSON, YAML, Legacy) returns without error has
\* as its source the text exactly as it was handed to ParseComment, leading
\* and trailing whitespace included, and the steps of the processor after
\* the parser (the object type, Sanitize) leave the source as it is.
C17_SourceIsInput ==
  /\ (fn.op \in {"ParseComment", "Sanitize"} /\ fn.ret.Error = NoError) =>
       fn.ret.Data.Source = fn.comment
  /\ (fn.op = "Sanitize") => fn.sanitized.Source = fn.ret.Data.Source

\* the JSON parser returned without error, for a text with whitespace
\* around it, a record whose source is the text without that whitespace
C17_Witness ==
  /\ fn.op = "ParseComment"
  /\ fn.parser.name = "json"
  /\ fn.comment # TrimSpace(fn.comment)
  /\ fn.ret.Error = NoError
  /\ fn.ret.Data.Source = TrimSpace(fn.comment)

\* C18: for the validator of every profile and every record,
\* Sanitize(Sanitize(r)) has the logical name, the description, the tags and
\* the metadata of Sanitize(r).
C18_SanitizeIdempotent ==
  (fn.op = "SanitizeAgain") =>
    /\ fn.again.LogicalName = fn.ret.LogicalName
    /\ fn.again.Description = fn.ret.Description
    /\ fn.again.Tags = fn.ret.Tags
    /\ fn.again.Metadata = fn.ret.Metadata

\* the validator of the permissive profile, which escapes nothing, changed
\* the logical name of a record that Sanitize had returned
C18_Witness ==
  /\ fn.op = "SanitizeAgain"
  /\ ~validator.config.EnableHTMLEscape
  /\ fn.again.LogicalName # fn.ret.LogicalName

\* the text neither begins nor ends with whitespace and holds no two
\* whitespace characters in a row
Stripped(text) ==
  \/ text = <<>>
  \/ /\ ~IsSpace(text[1])
     /\ ~IsSpace(text[Len(text)])
     /\ \A i \in 1..(Len(text) - 1) : ~(IsSpace(text[i]) /\ IsSpace(text[i + 1]))

\* C19: the record Sanitize returns has no leading or trailing whitespace
\* and no two whitespace characters in a row in its logical name, its
\* description, any tag and any metadata key or value, no empty tag and no
\* metadata entry with an empty key or value; the record handed in is as it
\* was.
C19_SanitizeStrips ==
  (fn.op \in {"Sanitize", "SanitizeAgain"}) =>
    /\ Stripped(fn.ret.LogicalName)
    /\ Stripped(fn.ret.Description)
    /\ \A i \in 1..Len(fn.ret.Tags) : fn.ret.Tags[i] # <<>> /\ Stripped(fn.ret.Tags[i])
    /\ \A k \in DOMAIN fn.ret.Metadata :
         /\ k # <<>>
         /\ Stripped(k)
         /\ fn.ret.Metadata[k] # <<>>
         /\ Stripped(fn.ret.Metadata[k])
    /\ fn.data \in SanitizeRecords

\* Sanitize returned a record whose logical name begins with a space
C19_Witness ==
  /\ fn.op = "Sanitize"
  /\ fn.ret.LogicalName # <<>>
  /\ fn.ret.LogicalName[1] = " "

\* the elements of a sequence as a set
Elements(s) == {s[i] : i \in 1..Len(s)}

\* the position at which x stands first in s
FirstAt(s, x) == SetMin({i \in 1..Len(s) : s[i] = x})

\* C20: for records a and b, the tags of Merge(a, b) hold no tag twice, hold
\* exactly the tags of a and of b, and stand in the order in which the tags
\* are first seen in a.tags followed by b.tags.
C20_MergeTagsDeduplicated ==
  (fn.op = "Merge" /\ fn.cd # NilData /\ fn.other # NilData) =>
    LET tags == fn.ret.Tags
        seen == fn.cd.Tags \o fn.other.Tags
    IN /\ \A i \in 1..Len(tags), j \in 1..Len(tags) : tags[i] = tags[j] => i = j
       /\ Elements(tags) = Elements(seen)
       /\ \A i \in 1..Len(tags), j \in 1..Len(tags) :
            i < j => FirstAt(seen, tags[i]) <= FirstAt(seen, tags[j])

\* Merge returned the same tag twice for a record a that holds it twice and
\* a record b with another tag
C20_Witness ==
  /\ fn.op = "Merge"
  /\ fn.cd # NilData
  /\ fn.other # NilData
  /\ fn.cd.Tags = <<<<"x">>, <<"x">>>>
  /\ fn.other.Tags = <<<<"y">>, <<"x">>, <<"z">>>>
  /\ fn.ret.Tags = <<<<"x">>, <<"x">>, <<"y">>, <<"z">>>>

\* C21: for records a and b, the logical name, the description and the
\* priority of Merge(a, b) are a's when a's is not empty (not zero) and b's
\* otherwise; every metadata key of a keeps a's value and the keys only b has
\* are added with b's value; the source is a's; and the tags and the metadata
\* of the result are stored neither where a's nor where b's are.
C21_MergeFallsBack ==
  (fn.op = "Merge" /\ fn.cd # NilData /\ fn.other # NilData) =>
    /\ fn.ret.LogicalName =
         (IF fn.cd.LogicalName # <<>> THEN fn.cd.LogicalName ELSE fn.other.LogicalName)
    /\ fn.ret.Description =
         (IF fn.cd.Description # <<>> THEN fn.cd.Description ELSE fn.other.Description)
    /\ fn.ret.Priority = (IF fn.cd.Priority # 0 THEN fn.cd.Priority ELSE fn.other.Priority)
    /\ DOMAIN fn.ret.Metadata = (DOMAIN fn.cd.Metadata) \cup (DOMAIN fn.other.Metadata)
    /\ \A k \in DOMAIN fn.cd.Metadata : fn.ret.Metadata[k] = fn.cd.Metadata[k]
    /\ \A k \in (DOMAIN fn.other.Metadata) \ (DOMAIN fn.cd.Metadata) :
         fn.ret.Metadata[k] = fn.other.Metadata[k]
    /\ fn.ret.Source = fn.cd.Source
    /\ fn.stores.Tags \in {"made", "none"}
    /\ fn.stores.Metadata \in {"made", "none"}

\* Merge returned the priority zero of a record a, together with its name
\* and its value of a metadata key that b has too, when b has a priority
C21_Witness ==
  /\ fn.op = "Merge"
  /\ fn.cd # NilData
  /\ fn.other # NilData
  /\ fn.cd.Priority = 0
  /\ fn.other.Priority = 5
  /\ fn.ret.Priority = 0
  /\ fn.cd.LogicalName = <<"a">>
  /\ fn.other.LogicalName = <<"b">>
  /\ fn.ret.LogicalName = <<"a">>
  /\ fn.cd.Metadata = (<<"k">> :> <<"v">>)
  /\ fn.other.Metadata = (<<"k">> :> <<"w">>) @@ (<<"m">> :> <<"u">>)
  /\ fn.ret.Metadata = (<<"k">> :> <<"v">>) @@ (<<"m">> :> <<"u">>)

(* ---------------------------------------------------------------------- *)
(* LegacyParser.ParseComment on drawn texts and delimiters                 *)
(* ---------------------------------------------------------------------- *)

\* the longest text handed to the Legacy parser
MaxLegacyLen == 4

\* the characters of the texts handed to the Legacy parser
LegacyAlphabet == {"a", "|", ":", BSL, " "}

RECURSIVE LegacyTextsOfLen(_)
LegacyTextsOfLen(n) ==
  IF n = 0 THEN {<<>>}
  ELSE {Append(t, ch) : t \in LegacyTextsOfLen(n - 1), ch \in LegacyAlphabet}

\* the texts handed to the Legacy parser
LegacyTexts ==
  UNION {LegacyTextsOfLen(n) : n \in 0..MaxLegacyLen}
    \cup {<<"a", BSL, ":", ":", "b", ":", ":", "c">>, <<"a", BSL, ":", ":", ":", "b">>,
          <<" ", "a", "\t", "\n", "b", " ", "|", " ", "c", " ", "|", "d">>}

\* the delimiters handed to the Legacy parser
LegacyDelimiters == {<<>>, <<"|">>, <<":">>, <<":", ":">>}

\* a text and a delimiter are drawn
InitLegacy ==
  /\ \E comment \in LegacyTexts, delimiter \in LegacyDelimiters :
       fn = [op |-> "none", comment |-> comment, delimiter |-> delimiter]
  /\ parsers = <<>>
  /\ out = NoCall
  /\ config = DefaultProcessingConfig
  /\ validator = NewDefaultCommentValidator
  /\ calls = [c \in Callers |-> IdleCall]
  /\ workers = [c \in Callers |-> NoWorker]
  /\ done = [c \in Callers |-> <<>>]
  /\ timer = [c \in Callers |-> FALSE]
  /\ adapter = NoAdapter
  /\ reporter = NoReporter

\* NewLegacyParser().ParseComment(comment, delimiter)
LegacyParse ==
  /\ fn.op = "none"
  /\ fn' = [op |-> "LegacyParseComment", comment |-> fn.comment, delimiter |-> fn.delimiter,
            ret |-> LegacyParseComment(fn.comment, fn.delimiter)]
  /\ UNCHANGED <<parsers, out, config, validator, calls, workers, done, timer, adapter, reporter>>

NextLegacy == LegacyParse

SpecLegacy == InitLegacy /\ [][NextLegacy]_vars

\* the words of a text: its longest stretches without whitespace
RECURSIVE WordsOf(_, _, _)
WordsOf(text, word, words) ==
  IF text = <<>> THEN (IF word = <<>> THEN words ELSE Append(words, word))
  ELSE IF IsSpace(Head(text))
    THEN WordsOf(Tail(text), <<>>, IF word = <<>> THEN words ELSE Append(words, word))
  ELSE WordsOf(Tail(text), Append(word, Head(text)), words)

\* the words with one space between them
RECURSIVE Spaced(_)
Spaced(words) ==
  IF words = <<>> THEN <<>>
  ELSE IF Len(words) = 1 THEN words[1]
  ELSE words[1] \o <<" ">> \o Spaced(Tail(words))

\* the fields of a text: a backslash directly before the delimiter stands,
\* with the delimiter, for the delimiter inside the field; the delimiter
\* elsewhere ends the field; every other character belongs to the field
RECURSIVE FieldsOf(_, _, _, _)
FieldsOf(text, delimiter, field, fields) ==
  IF text = <<>> THEN Append(fields, field)
  ELSE IF Head(text) = BSL /\ HasPrefixAt(text, 2, delimiter)
    THEN FieldsOf(SubSeq(text, 2 + Len(delimiter), Len(text)), delimiter,
                  field \o delimiter, fields)
  ELSE IF HasPrefixAt(text, 1, delimiter)
    THEN FieldsOf(SubSeq(text, 1 + Len(delimiter), Len(text)), delimiter, <<>>,
                  Append(fields, field))
  ELSE FieldsOf(Tail(text), delimiter, Append(field, Head(text)), fields)

\* the fields of the text of the call, its whitespace trimmed and collapsed
LegacyFields ==
  FieldsOf(Spaced(WordsOf(fn.comment, <<>>, <<>>)),
           IF fn.delimiter = <<>> THEN <<"|">> ELSE fn.delimiter, <<>>, <<>>)

\* C22: the Legacy parser trims the text, collapses its whitespace runs to
\* one space and splits it on the delimiter ("|" when none is given, also a
\* delimiter of several characters); a backslash directly before the
\* delimiter gives the delimiter inside the field without a split and every
\* other backslash is kept; the first field, trimmed, is the logical name,
\* the second, trimmed, the description (empty when there is one field), the
\* further fields are dropped, and no error is returned.
C22_LegacySplitsWithEscape ==
  (fn.op = "LegacyParseComment") =>
    /\ fn.ret.Error = NoError
    /\ fn.ret.Data.LogicalName = TrimSpace(LegacyFields[1])
    /\ fn.ret.Data.Description =
         (IF Len(LegacyFields) > 1 THEN TrimSpace(LegacyFields[2]) ELSE <<>>)
    /\ fn.ret.Data.Tags = <<>>
    /\ fn.ret.Data.Metadata = EmptyMap

\* the parser split the text a\:::b on the delimiter "::" behind the first
\* colon of the escaped delimiter
C22_Witness ==
  /\ fn.op = "LegacyParseComment"
  /\ fn.comment = <<"a", BSL, ":", ":", ":", "b">>
  /\ fn.delimiter = <<":", ":">>
  /\ fn.ret.Data.LogicalName = <<"a", ":">>
  /\ fn.ret.Data.Description = <<"b">>

\* the error is that of a text longer than the parser's maximum size
IsTooLong(err) ==
  /\ err.type = "CommentParseError"
  /\ err.Cause = ErrCommentTooLong

\* C23: a JSON or YAML parser accepts no text of more bytes than its maximum
\* size: for such a text CanParse is false and ParseComment returns no record
\* and the CommentTooLong error; a text of exactly the maximum size is not
\* refused for its size.
C23_StructuredRefuseOversize ==
  (fn.op \in {"none", "ParseComment"} /\ fn.parser.name \in {"json", "yaml"}) =>
    /\ ("can" \in DOMAIN fn /\ ByteLen(fn.comment) > fn.parser.maxSize) => ~fn.can
    /\ (fn.op = "ParseComment" /\ ByteLen(fn.comment) > fn.parser.maxSize) =>
         /\ fn.ret.Data = NilData
         /\ IsTooLong(fn.ret.Error)
    /\ (fn.op = "ParseComment" /\ ByteLen(fn.comment) = fn.parser.maxSize) =>
         ~IsTooLong(fn.ret.Error)

\* a JSON parser whose CanParse refused a text one byte longer than its
\* maximum size returned a record for it without error
C23_Witness ==
  /\ fn.op = "ParseComment"
  /\ fn.parser.name = "json"
  /\ ByteLen(fn.comment) = fn.parser.maxSize + 1
  /\ "can" \in DOMAIN fn
  /\ ~fn.can
  /\ fn.ret.Error = NoError
  /\ fn.ret.Data # NilData

\* C24: two calls of ParseWithFallback with the same text and delimiter on
\* the same registry return equal records (logical name, description, tags,
\* metadata, priority, deprecated, source) or fail both with the same error,
\* in whatever order the maps are gone through, and no call of
\* ParseWithFallback changes the registry.
C24_ParseWithFallbackDeterministic ==
  /\ []((out # NoCall /\ out.op = "ParseWithFallbackAgain") =>
          /\ out.again.Error = out.r.Error
          /\ out.again.Data = out.r.Data)
  /\ [][(out' # NoCall /\ out'.op \in {"ParseWithFallback", "ParseWithFallbackAgain"}) =>
          parsers' = parsers]_vars

\* the second call went through the two metadata keys of the text with the
\* key that sorts last first and returned the record with both entries
C24_Witness ==
  /\ out # NoCall
  /\ out.op = "ParseWithFallbackAgain"
  /\ out.comment = S_twokeys
  /\ out.order = <<<<"k", " ">>, <<"k">>>>
  /\ out.r.Error = NoError
  /\ out.again.Data.Metadata = (<<"k">> :> <<"v">>) @@ (<<"k", " ">> :> <<"w">>)

(* ---------------------------------------------------------------------- *)
(* DefaultErrorReporter                                                    *)
(* ---------------------------------------------------------------------- *)

ErrorSeverityInfo == "info"
ErrorSeverityWarning == "warning"
ErrorSeverityError == "error"

ErrorCategoryValidation == "validation"
ErrorCategoryParsing == "parsing"
ErrorCategoryProcessing == "processing"

\* the most calls made on one reporter
MaxReports == 11
\* the most of them that are calls of ReportRecovery
MaxRecoveries == 2

\* the errors ErrorBuilder builds for the callers of the reporter
ReportedErrors ==
  {[Message |-> "JSON parse failed", Severity |-> ErrorSeverityError,
    Category |-> ErrorCategoryParsing, ErrorCode |-> "E_JSON_PARSE_FAILED",
    Context |-> <<>>, ObjectType |-> ObjectTypeColumn, ObjectName |-> "test_col"],
   [Message |-> "validation failed", Severity |-> ErrorSeverityWarning,
    Category |-> ErrorCategoryValidation, ErrorCode |-> "E_VALIDATION_FAILED",
    Context |-> <<>>, ObjectType |-> ObjectTypeTable, ObjectName |-> "users"]}

\* the entry ReportRecovery builds for the error it is told of; the message
\* is "Recovered from error: " and the error's message
RecoveryError(originalErr) ==
  [Message |-> <<"Recovered from error: %s", originalErr.Message>>,
   Severity |-> ErrorSeverityInfo,
   Category |-> ErrorCategoryProcessing,
   ErrorCode |-> "E_RECOVERY_SUCCESS",
   Context |-> [original_error |-> originalErr.ErrorCode,
                recovered_data_type |-> "*schema.CommentData"],
   ObjectType |-> originalErr.ObjectType,
   ObjectName |-> originalErr.ObjectName]

\* NewDefaultErrorReporter; reports and recoveries count the calls made
InitReporter ==
  /\ reporter = [op |-> "new", errors |-> <<>>, recovered |-> 0,
                 reports |-> 0, recoveries |-> 0]
  /\ parsers = <<>>
  /\ out = NoCall
  /\ config = DefaultProcessingConfig
  /\ validator = NewDefaultCommentValidator
  /\ calls = [c \in Callers |-> IdleCall]
  /\ workers = [c \in Callers |-> NoWorker]
  /\ done = [c \in Callers |-> <<>>]
  /\ timer = [c \in Callers |-> FALSE]
  /\ adapter = NoAdapter
  /\ fn = NoFn

\* (*DefaultErrorReporter).ReportError
ReportError(err) ==
  /\ reporter.reports + reporter.recoveries < MaxReports
  /\ reporter' = [op |-> "ReportError", arg |-> err,
                  errors |-> Append(reporter.errors, err),
                  recovered |-> reporter.recovered,
                  reports |-> reporter.reports + 1, recoveries |-> reporter.recoveries]
  /\ UNCHANGED <<parsers, out, config, validator, calls, workers, done, timer, adapter, fn>>

\* (*DefaultErrorReporter).ReportRecovery
ReportRecovery(originalErr) ==
  /\ reporter.reports + reporter.recoveries < MaxReports
  /\ reporter.recoveries < MaxRecoveries
  /\ reporter' = [op |-> "ReportRecovery", arg |-> originalErr,
                  errors |-> Append(reporter.errors, RecoveryError(originalErr)),
                  recovered |-> reporter.recovered + 1,
                  reports |-> reporter.reports, recoveries |-> reporter.recoveries + 1]
  /\ UNCHANGED <<parsers, out, config, validator, calls, workers, done, timer, adapter, fn>>

\* the number of the entries that f maps to key
CountBy(errors, f(_), key) == Cardinality({i \in 1..Len(errors) : f(errors[i]) = key})

SeverityOf(err) == err.Severity
CategoryOf(err) == err.Category

\* the index before the first of the recent entries, were all entries recent
RecentStartAll(n) == 0

\* start := len(r.errors) - 10, and 0 when that is negative
RecentStart(n) == IF n - 10 < 0 THEN 0 ELSE n - 10

\* what GetErrorSummary returns for the reporter's entries; a map holds the
\* keys that were counted
ErrorSummaryOf(errors, recovered) ==
  [TotalErrors |-> Len(errors),
   ErrorsBySeverity |-> [s \in {errors[i].Severity : i \in 1..Len(errors)} |->
                           CountBy(errors, SeverityOf, s)],
   ErrorsByCategory |-> [c \in {errors[i].Category : i \in 1..Len(errors)} |->
                           CountBy(errors, CategoryOf, c)],
   RecoveredErrors |-> recovered,
   RecentErrors |-> SubSeq(errors, RecentStart(Len(errors)) + 1, Len(errors))]

\* (*DefaultErrorReporter).GetErrorSummary
GetErrorSummary ==
  /\ reporter.op \in {"new", "ReportError", "ReportRecovery"}
  /\ reporter' = [op |-> "GetErrorSummary", errors |-> reporter.errors,
                  recovered |-> reporter.recovered,
                  reports |-> reporter.reports, recoveries |-> reporter.recoveries,
                  summary |-> ErrorSummaryOf(reporter.errors, reporter.recovered)]
  /\ UNCHANGED <<parsers, out, config, validator, calls, workers, done, timer, adapter, fn>>

NextReporter ==
  \/ \E err \in ReportedErrors : ReportError(err)
  \/ \E originalErr \in ReportedErrors : ReportRecovery(originalErr)
  \/ GetErrorSummary

SpecReporter == InitReporter /\ [][NextReporter]_vars

\* the sum of the values of a map of counts
RECURSIVE SumOf(_)
SumOf(counts) ==
  IF DOMAIN counts = {} THEN 0
  ELSE LET k == CHOOSE x \in DOMAIN counts : TRUE
       IN counts[k] + SumOf([x \in (DOMAIN counts) \ {k} |-> counts[x]])

\* C25: after any calls of ReportError and ReportRecovery, GetErrorSummary
\* returns TotalErrors as the number of the calls of both, RecoveredErrors as
\* the number of the calls of ReportRecovery, counts by severity and counts
\* by category that each add up to TotalErrors, and as RecentErrors the last
\* min(10, TotalErrors) entries in the order of the reports; and every
\* ReportRecovery appends exactly one entry, of severity info and code
\* E_RECOVERY_SUCCESS, whose context names the code of the error recovered.
C25_ErrorSummaryCounts ==
  /\ [](reporter.op = "GetErrorSummary" =>
          /\ reporter.summary.TotalErrors = reporter.reports + reporter.recoveries
          /\ reporter.summary.RecoveredErrors = reporter.recoveries
          /\ SumOf(reporter.summary.ErrorsBySeverity) = reporter.summary.TotalErrors
          /\ SumOf(reporter.summary.ErrorsByCategory) = reporter.summary.TotalErrors
          /\ Len(reporter.summary.RecentErrors) =
               (IF reporter.summary.TotalErrors < 10 THEN reporter.summary.TotalErrors
                ELSE 10)
          /\ \A i \in 1..Len(reporter.summary.RecentErrors) :
               reporter.summary.RecentErrors[i] =
                 reporter.errors[Len(reporter.errors)
                                   - Len(reporter.summary.RecentErrors) + i])
  /\ [][(reporter'.op = "ReportRecovery" /\ reporter' # reporter) =>
          /\ Len(reporter'.errors) = Len(reporter.errors) + 1
          /\ SubSeq(reporter'.errors, 1, Len(reporter.errors)) = reporter.errors
          /\ reporter'.errors[Len(reporter'.errors)].Severity = ErrorSeverityInfo
          /\ reporter'.errors[Len(reporter'.errors)].ErrorCode = "E_RECOVERY_SUCCESS"
          /\ reporter'.errors[Len(reporter'.errors)].Context.original_error =
               reporter'.arg.ErrorCode]_vars

\* a summary was taken of eleven entries, two of them recoveries, and its
\* recent errors are the last ten
C25_Witness ==
  /\ reporter.op = "GetErrorSummary"
  /\ reporter.reports = 9
  /\ reporter.recoveries = 2
  /\ reporter.summary.TotalErrors = 11
  /\ Len(reporter.summary.RecentErrors) = 10
  /\ reporter.summary.RecentErrors[1] = reporter.errors[2]
  /\ reporter.summary.RecentErrors[1] # reporter.errors[1]

(* ---------------------------------------------------------------------- *)
(* ProcessComment: the deadline and the worker                             *)
(* ---------------------------------------------------------------------- *)

\* a configuration written out with ProcessingTimeout left unset
UnsetTimeoutConfig ==
  [DefaultProcessingConfig EXCEPT !.EnableValidation = FALSE, !.StrictMode = TRUE,
                                  !.ProcessingTimeout = 0]

\* the configurations the caller gives to SetConfig
DeadlineConfigs == {DefaultProcessingConfig, UnsetTimeoutConfig}

\* NewEnhancedCommentProcessorWithConfig(UnsetTimeoutConfig)
InitDeadline ==
  /\ parsers = registerDefaultParsers
  /\ out = NoCall
  /\ config = UnsetTimeoutConfig
  /\ validator = NewDefaultCommentValidator
  /\ calls = [c \in Callers |-> IdleCall]
  /\ workers = [c \in Callers |-> NoWorker]
  /\ done = [c \in Callers |-> <<>>]
  /\ timer = [c \in Callers |-> FALSE]
  /\ adapter = NoAdapter
  /\ reporter = NoReporter
  /\ fn = NoFn

\* SetConfig called by the caller whose calls have returned; the code does
\* not wait for the workers of those calls
SetConfigByCaller(cfg) ==
  /\ \A c \in Callers : calls[c].pc = "idle"
  /\ config' = cfg
  /\ UNCHANGED <<parsers, out, validator, calls, workers, done, timer, adapter, fn, reporter>>

\* one processor and one caller that reconfigures between its calls
NextDeadline ==
  \/ \E comment \in WorkerComments, objectType \in ObjectTypes :
       Call(1, comment, <<>>, objectType)
  \/ WorkerRun(1)
  \/ WorkerSend(1)
  \/ TimerFire(1)
  \/ SelectResult(1)
  \/ SelectTimeout(1)
  \/ Validation(1)
  \/ Return(1)
  \/ \E cfg \in DeadlineConfigs : SetConfigByCaller(cfg)

SpecDeadline == InitDeadline /\ [][NextDeadline]_vars

\* C26: ProcessComment returns the timeout error only when the worker had not
\* delivered its result: whenever the result is in the channel at the moment
\* the select of the caller chooses, the call returns that result; and under
\* a configuration whose ProcessingTimeout is 0 no call on a text whose
\* parsing completes returns the timeout error.
C26_TimeoutOnlyWithoutResult ==
  /\ [][\A c \in Callers :
          (calls[c].pc = "select" /\ done[c] # <<>> /\ calls'[c].pc = "processed") =>
            calls'[c].processed = Head(done[c])]_vars
  /\ [](\A c \in Callers :
          (calls[c].pc = "processed" /\ calls[c].comment # <<>>
             /\ config.ProcessingTimeout = 0) =>
            calls[c].processed.Error.type # "errorString")

\* under a configuration with ProcessingTimeout 0 a call has returned the
\* timeout error although its worker had finished and its result is in the
\* channel
C26_Witness ==
  /\ config.ProcessingTimeout = 0
  /\ calls[1].pc = "processed"
  /\ calls[1].comment = S_json
  /\ calls[1].processed.Data = NilData
  /\ calls[1].processed.Error.type = "errorString"
  /\ workers[1].pc = "exit"
  /\ Len(done[1]) = 1
  /\ done[1][1].Error = NoError

\* C27: once ProcessComment has returned to its caller, the worker of the
\* call does not read the registry or the configuration any more: no worker
\* has its parsing ahead of it when its call has returned, and no change of
\* the configuration, the validator or the registry that the caller makes
\* after the return happens while a worker has its parsing ahead of it.
C27_NoWorkAfterReturn ==
  /\ [](\A c \in Callers :
          calls[c].pc \in {"processed", "returned", "idle"} => workers[c].pc # "run")
  /\ [][(config' # config \/ validator' # validator \/ parsers' # parsers) =>
          \A c \in Callers : workers[c].pc # "run"]_vars

\* ProcessCommentWithValidation has returned from the timer case and the
\* worker of the call has not yet read the registry
C27_Witness ==
  /\ calls[1].pc = "idle"
  /\ workers[1].pc = "run"
  /\ timer[1] = FALSE
  /\ done[1] = <<>>

(* ---------------------------------------------------------------------- *)
(* The hook ProcessEnhancedComment applied again                           *)
(* ---------------------------------------------------------------------- *)

\* the comments of the objects the hook is applied to
HookComments == Comments \cup {<<"a", "|", "b">>}

\* the kinds of object that take the logical name of their record
HookKinds == {"table", "column"}

\* a processor as NewEnhancedCommentProcessorWithConfig makes it and an
\* object as the driver read it are drawn
InitHooks ==
  /\ config \in {DefaultProcessingConfig, DefaultAdapterConfig,
                 [DefaultAdapterConfig EXCEPT !.StrictMode = TRUE]}
  /\ \E kind \in HookKinds, comment \in HookComments :
       fn = [op |-> "none", kind |-> kind, obj |-> NewObject(<<"c", "1">>, comment)]
  /\ parsers = registerDefaultParsers
  /\ validator = NewDefaultCommentValidator
  /\ out = NoCall
  /\ calls = [c \in Callers |-> IdleCall]
  /\ workers = [c \in Callers |-> NoWorker]
  /\ done = [c \in Callers |-> <<>>]
  /\ timer = [c \in Callers |-> FALSE]
  /\ adapter = NoAdapter
  /\ reporter = NoReporter

\* obj.ProcessEnhancedComment(processor, "|", true) on the object as read
HookOnce ==
  /\ fn.op = "none"
  /\ \E r \in ProcessCommentWithValidationOf(parsers, config, validator, fn.obj.Comment,
                                             <<"|">>, ObjectTypeOf(fn.kind)) :
       fn' = [op |-> "once", kind |-> fn.kind, obj |-> fn.obj,
              once |-> ProcessEnhancedComment(fn.obj, fn.kind, r)]
  /\ UNCHANGED <<parsers, out, config, validator, calls, workers, done, timer, adapter, reporter>>

\* the same call again on the object the first call left
HookTwice ==
  /\ fn.op = "once"
  /\ fn.once.err = NoError
  /\ \E r \in ProcessCommentWithValidationOf(parsers, config, validator, fn.once.obj.Comment,
                                             <<"|">>, ObjectTypeOf(fn.kind)) :
       fn' = [op |-> "twice", kind |-> fn.kind, obj |-> fn.obj, once |-> fn.once,
              twice |-> ProcessEnhancedComment(fn.once.obj, fn.kind, r)]
  /\ UNCHANGED <<parsers, out, config, validator, calls, workers, done, timer, adapter, reporter>>

NextHooks == HookOnce \/ HookTwice

SpecHooks == InitHooks /\ [][NextHooks]_vars

MaxBatch == 2

\* the inputs of a batch: CommentInput{Comment, Delimiter, ObjectType}
CommentInputs ==
  {[Comment |-> c, Delimiter |-> <<>>, ObjectType |-> ObjectTypeTable]
     : c \in {<<>>, <<"a">>, S_json, S_jsonbad, S_forbidden, S_html}}

Batches == UNION {[1..n -> CommentInputs] : n \in 0..MaxBatch}

NoStats == [op |-> "none"]

\* NewEnhancedCommentProcessorWithConfig with a lenient or a strict config
InitStats ==
  /\ config \in WorkerConfigs
  /\ parsers = registerDefaultParsers
  /\ validator = NewDefaultCommentValidator
  /\ fn = NoStats
  /\ out = NoCall
  /\ calls = [c \in Callers |-> IdleCall]
  /\ workers = [c \in Callers |-> NoWorker]
  /\ done = [c \in Callers |-> <<>>]
  /\ timer = [c \in Callers |-> FALSE]
  /\ adapter = NoAdapter
  /\ reporter = NoReporter

\* IsValidationError: the type assertion err.(*CommentValidationError), which
\* does not look through the wrapping of fmt.Errorf
IsValidationError(err) == err.type = "CommentValidationError"

\* ProcessCommentsWithStats up to its loop
ProcessCommentsWithStats(comments) ==
  /\ fn.op = "none"
  /\ fn' = [op |-> "ProcessCommentsWithStats", pc |-> "loop", comments |-> comments,
            i |-> 1, results |-> <<>>, errs |-> <<>>,
            stats |-> [TotalProcessed |-> Len(comments), SuccessCount |-> 0, ErrorCount |-> 0,
                       ValidationErrors |-> 0, ParsingErrors |-> 0]]
  /\ UNCHANGED <<parsers, out, config, validator, calls, workers, done, timer, adapter, reporter>>

\* the counters after the return err of ProcessCommentWithValidation
StatsAfter(stats, err) ==
  IF err # NoError
    THEN [stats EXCEPT !.ErrorCount = @ + 1,
                       !.ValidationErrors = IF IsValidationError(err) THEN @ + 1 ELSE @,
                       !.ParsingErrors = IF IsValidationError(err) THEN @ ELSE @ + 1]
  ELSE [stats EXCEPT !.SuccessCount = @ + 1]

\* one turn of the loop of ProcessCommentsWithStats
StatsTurn ==
  /\ fn.op = "ProcessCommentsWithStats"
  /\ fn.pc = "loop"
  /\ fn.i <= Len(fn.comments)
  /\ LET input == fn.comments[fn.i]
     IN \E r \in ProcessCommentWithValidationOf(parsers, config, validator, input.Comment,
                                                input.Delimiter, input.ObjectType) :
          fn' = [fn EXCEPT !.i = @ + 1,
                           !.results = Append(@, r.Data),
                           !.errs = Append(@, r.Error),
                           !.stats = StatsAfter(@, r.Error)]
  /\ UNCHANGED <<parsers, out, config, validator, calls, workers, done, timer, adapter, reporter>>

\* the loop has come to its end: results and stats are returned
StatsReturn ==
  /\ fn.op = "ProcessCommentsWithStats"
  /\ fn.pc = "loop"
  /\ fn.i > Len(fn.comments)
  /\ fn' = [fn EXCEPT !.pc = "returned"]
  /\ UNCHANGED <<parsers, out, config, validator, calls, workers, done, timer, adapter, reporter>>

NextStats ==
  \/ \E comments \in Batches : ProcessCommentsWithStats(comments)
  \/ StatsTurn
  \/ StatsReturn

SpecStats == InitStats /\ [][NextStats]_vars

\* the error is the one ProcessCommentWithValidation returns when the
\* validator rejected the record in strict mode
RejectedByValidator(err) == err.type = "wrapped" /\ err.msg = "validation failed"

\* C29: when ProcessCommentsWithStats has returned, SuccessCount +
\* ErrorCount = TotalProcessed = the number of inputs, ValidationErrors +
\* ParsingErrors = ErrorCount, every input the validator rejected in strict
\* mode is counted in ValidationErrors, and every input that failed parsing
\* or timed out is counted in ParsingErrors.
C29_StatsCounts ==
  (fn.op = "ProcessCommentsWithStats" /\ fn.pc = "returned") =>
    /\ fn.stats.SuccessCount + fn.stats.ErrorCount = fn.stats.TotalProcessed
    /\ fn.stats.TotalProcessed = Len(fn.comments)
    /\ fn.stats.ValidationErrors + fn.stats.ParsingErrors = fn.stats.ErrorCount
    /\ fn.stats.ValidationErrors =
         Cardinality({i \in 1..Len(fn.errs) : RejectedByValidator(fn.errs[i])})
    /\ fn.stats.ParsingErrors =
         Cardinality({i \in 1..Len(fn.errs) :
                        fn.errs[i] # NoError /\ ~RejectedByValidator(fn.errs[i])})

\* a strict processor has returned from a batch of two: the validator
\* rejected the first input, the second timed out, and both are counted as
\* parsing errors
C29_Witness ==
  /\ fn.op = "ProcessCommentsWithStats"
  /\ fn.pc = "returned"
  /\ config.StrictMode
  /\ Len(fn.errs) = 2
  /\ RejectedByValidator(fn.errs[1])
  /\ fn.errs[1].cause.type = "CommentValidationError"
  /\ fn.errs[2] = TimeoutResult(config).Error
  /\ fn.stats.ErrorCount = 2
  /\ fn.stats.ValidationErrors = 0
  /\ fn.stats.ParsingErrors = 2

\* C30: for the validator of every profile, two calls of Sanitize on the
\* same record return equal records, also when two metadata keys of the
\* record sanitize to the same key.
C30_SanitizeDeterministic ==
  (fn.op = "SanitizeSame") => fn.same = fn.ret

\* the keys "k " and "k" of the record both sanitize to k: the first call
\* kept the value of the one, the second call the value of the other
C30_Witness ==
  /\ fn.op = "SanitizeSame"
  /\ fn.data.Metadata = (<<"k", " ">> :> <<"v">>) @@ (<<"k">> :> <<"w">>)
  /\ fn.ret.Metadata = (<<"k">> :> <<"v">>)
  /\ fn.same.Metadata = (<<"k">> :> <<"w">>)
====
